---- MODULE Spec2Model ----
(***************************************************************************)
(* WebX Journal: the session key slot of auth.js, the profile store of     *)
(* storage.js, the symbolic AES-GCM envelope of crypto.js and the session  *)
(* timer of ui.js, as one state machine.  Every async function is cut at   *)
(* its awaits: one action per resumption.                                  *)
(***************************************************************************)
EXTENDS Integers, Sequences, FiniteSets, TLC

\* ------------------------------------------------------------------ bounds
MaxSalt == 2
MaxNonce == 1
MaxInFlight == 2
MaxEntries == 2

\* ------------------------------------------------------- program constants
SESSION_DURATION_SECONDS == 300
WARNING_THRESHOLD_SECONDS == 60
TIMEOUT_BUFFER_SECONDS == 5
CURRENT_DATA_VERSION == 1
MIN_USERNAME_LENGTH == 3
MIN_PASSWORD_LENGTH == 8

\* ------------------------------------------------------------- input sets
Usernames == {"alice", "al"}
Passwords == {"CorrectHorse1", "WrongPassword", "short"}
Salts == 1..MaxSalt
Nonces == 1..MaxNonce
Slots == 1..MaxInFlight
Titles == {"Monday", ""}
Contents == {"dear diary"}

\* JavaScript null for the username, the key slot and a timer id
NullUser == "<null>"
NullKey == <<>>
NoTimeout == -1

VARIABLES
    profiles,      \* storage.js: object store 'userProfiles', keyed by username
    currentAuth,   \* auth.js: {username, encryptionKey}
    ui,            \* ui.js: timeLeft, warningShown, popup, timers, listeners, screen
    authOps,       \* in-flight registerUser / loginUser calls, one per slot
    entries,       \* storage.js: object store 'journalEntries', keyed by id
    journalOp,     \* main.js: the in-flight handleSaveJournalEntry call
    allJournalEntries, \* main.js: cache of the decrypted entries
    clock,         \* Date.now(), advanced by every timestamp taken
    hist,          \* history of the session: events the claims speak about
    mainOp,        \* main.js: the in-flight handleRegister / handleLogin / ... call
    exported,      \* main.js: the bundle handed to downloadFile, as a file on disk
    sessionStorage, \* auth.js (sessionStorage variant): the tab's sessionStorage
    cryptoCall     \* crypto.js: a key, the text to seal and the envelopes sealed under the key

vars == <<profiles, currentAuth, ui, authOps, entries, journalOp,
          allJournalEntries, clock, hist, mainOp, exported, sessionStorage, cryptoCall>>
journalVars == <<entries, journalOp, allJournalEntries, clock>>
singleVars == <<mainOp, exported, sessionStorage, cryptoCall>>

\* ------------------------------------------------------------- crypto.js
\* PBKDF2 over (password, salt): deterministic, distinct inputs give distinct keys
deriveKeyFromPassword(password, salt) == <<password, salt>>

\* AES-GCM seal: the ciphertext and the tag are bound to data, key and iv
encrypt(data, key, iv) ==
    [iv |-> iv,
     ciphertext |-> <<"ct", data, key, iv>>,
     authTag |-> <<"tag", data, key, iv>>]

\* variant: an open that accepts any key
decryptAnyKey(ciphertext, iv, authTag, key) == [ok |-> TRUE, data |-> ciphertext[2]]

\* AES-GCM open: throws unless ciphertext and tag were made under key and iv
decrypt(ciphertext, iv, authTag, key) ==
    IF /\ Len(ciphertext) = 4
       /\ ciphertext[1] = "ct"
       /\ ciphertext[3] = key
       /\ ciphertext[4] = iv
       /\ authTag = <<"tag", ciphertext[2], key, iv>>
    THEN [ok |-> TRUE, data |-> ciphertext[2]]
    ELSE [ok |-> FALSE, data |-> [username |-> NullUser, version |-> 0]]

\* --------------------------------------------------------------- auth.js
IdleOp ==
    [pc |-> "idle", fn |-> "none", username |-> NullUser, password |-> "",
     found |-> FALSE, kdfSalt |-> 0, identity |-> encrypt(<<>>, NullKey, 0),
     key |-> NullKey, logoutDuringDerive |-> FALSE]

\* a JavaScript value as far as its truthiness goes
JSBoolean(b) == [type |-> "boolean", b |-> b]
JSUndefined == [type |-> "undefined", b |-> FALSE]
Truthy(v) == v.type = "boolean" /\ v.b

\* getAuthStatus is an async function: the caller gets a Promise of the status
getAuthStatus(auth, store) ==
    [type |-> "Promise",
     value |-> [isLoggedIn |-> (auth.username # NullUser /\ auth.encryptionKey # NullKey),
                isRegistered |-> (DOMAIN store # {}),
                username |-> auth.username]]

\* obj.isLoggedIn: a Promise has no such property
isLoggedInOf(obj) ==
    IF obj.type = "Promise" THEN JSUndefined ELSE JSBoolean(obj.value.isLoggedIn)

getCurrentEncryptionKey(auth) == [threw |-> FALSE, value |-> auth.encryptionKey]

\* variant: a logout that forgets the name and keeps the key
logoutUserKeepKey(auth) == [auth EXCEPT !.username = NullUser]

logoutUser(auth) == [username |-> NullUser, encryptionKey |-> NullKey]

\* ------------------------------------------------------------ storage.js
\* store.put on keyPath 'username': add or replace
saveUserProfile(store, userProfile) ==
    [u \in DOMAIN store \cup {userProfile.username} |->
        IF u = userProfile.username THEN userProfile ELSE store[u]]

\* ----------------------------------------------------------------- ui.js
\* variant: a hide that leaves the popup on screen
hideWarningPopupNoop(u) == u

hideWarningPopup(u) == [u EXCEPT !.popupHidden = TRUE]

\* variant: a show that does not set the warningShown flag
showWarningPopupFlagless(u) == [u EXCEPT !.popupHidden = FALSE]

showWarningPopup(u) == [u EXCEPT !.popupHidden = FALSE, !.warningShown = TRUE]

renderLoginForm(u) == [u EXCEPT !.screen = "login"]

\* the body of the setTimeout callback armed by resetSessionTimeout
inactivityTimeout(u, auth, store) ==
    IF u.timeLeft > 0 /\ Truthy(isLoggedInOf(getAuthStatus(auth, store)))
    THEN [ui |-> hideWarningPopup(renderLoginForm([u EXCEPT !.sessionTimerInterval = FALSE])),
          auth |-> logoutUser(auth), loggedOut |-> TRUE]
    ELSE [ui |-> u, auth |-> auth, loggedOut |-> FALSE]

\* variant: a reset that re-arms the timeout and leaves the display alone
resetSessionTimeoutArmOnly(u) ==
    [u EXCEPT !.sessionTimeoutId = SESSION_DURATION_SECONDS + TIMEOUT_BUFFER_SECONDS]

resetSessionTimeout(u) ==
    LET armed == [u EXCEPT !.sessionTimeoutId = SESSION_DURATION_SECONDS + TIMEOUT_BUFFER_SECONDS]
    IN  IF armed.timeLeft < SESSION_DURATION_SECONDS
        THEN hideWarningPopup([armed EXCEPT !.timeLeft = SESSION_DURATION_SECONDS,
                                            !.warningShown = FALSE])
        ELSE armed

\* variant: an interval callback that never shows the warning
sessionTimerTickSilent(u, auth, store) ==
    IF u.timeLeft > 0
    THEN [ui |-> [u EXCEPT !.timeLeft = u.timeLeft - 1],
          auth |-> auth, warned |-> FALSE, loggedOut |-> FALSE, expired |-> FALSE]
    ELSE LET stopped == [u EXCEPT !.sessionTimerInterval = FALSE]
         IN  IF Truthy(isLoggedInOf(getAuthStatus(auth, store)))
             THEN [ui |-> hideWarningPopup(renderLoginForm(stopped)),
                   auth |-> logoutUser(auth), warned |-> FALSE,
                   loggedOut |-> TRUE, expired |-> TRUE]
             ELSE [ui |-> hideWarningPopup(stopped),
                   auth |-> auth, warned |-> FALSE,
                   loggedOut |-> FALSE, expired |-> TRUE]

\* the body of the setInterval callback armed by startSessionTimer
sessionTimerTick(u, auth, store) ==
    IF u.timeLeft > 0
    THEN LET dec == [u EXCEPT !.timeLeft = u.timeLeft - 1]
             warn == dec.timeLeft <= WARNING_THRESHOLD_SECONDS /\ ~dec.warningShown
         IN  [ui |-> IF warn THEN showWarningPopup(dec) ELSE dec,
              auth |-> auth, warned |-> warn, loggedOut |-> FALSE, expired |-> FALSE]
    ELSE LET stopped == [u EXCEPT !.sessionTimerInterval = FALSE]
         IN  IF Truthy(isLoggedInOf(getAuthStatus(auth, store)))
             THEN [ui |-> hideWarningPopup(renderLoginForm(stopped)),
                   auth |-> logoutUser(auth), warned |-> FALSE,
                   loggedOut |-> TRUE, expired |-> TRUE]
             ELSE [ui |-> hideWarningPopup(stopped),
                   auth |-> auth, warned |-> FALSE,
                   loggedOut |-> FALSE, expired |-> TRUE]

startSessionTimer(u) ==
    LET fresh == hideWarningPopup([u EXCEPT !.timeLeft = SESSION_DURATION_SECONDS,
                                            !.warningShown = FALSE,
                                            !.sessionTimerInterval = TRUE,
                                            !.sessionTimeoutId = NoTimeout])
    IN  [resetSessionTimeout(fresh) EXCEPT !.listeners = TRUE]

\* variant: a stop that leaves the popup on screen
stopSessionTimerPopupLeft(u) ==
    [u EXCEPT !.sessionTimerInterval = FALSE, !.sessionTimeoutId = NoTimeout,
              !.warningShown = FALSE, !.listeners = FALSE]

stopSessionTimer(u) ==
    [hideWarningPopup(u) EXCEPT !.sessionTimerInterval = FALSE,
                                !.sessionTimeoutId = NoTimeout,
                                !.warningShown = FALSE,
                                !.listeners = FALSE]

renderMainJournalApp(u) == startSessionTimer([u EXCEPT !.screen = "main"])

\* --------------------------------------------------------------- main.js
NoEnvelope == encrypt("", NullKey, 0)
NoEntry == [id |-> 0, timestamp |-> 0, title |-> NoEnvelope, content |-> NoEnvelope]

IdleJournalOp ==
    [pc |-> "idle", title |-> "", content |-> "", key |-> NullKey,
     encryptedTitle |-> NoEnvelope, encryptedContent |-> NoEnvelope,
     encryptedEntries |-> << >>, logoutAt |-> ""]

\* variant: a handler that reads the slot again at every use
keyInSlot(op, auth) == auth.encryptionKey

\* the key a running handler hands to crypto: its local const encryptionKey
keyInUse(op, auth) == op.key

\* storage: store.add / store.put of one entry under its id
addJournalEntry(store, entry) ==
    [id \in DOMAIN store \cup {entry.id} |-> IF id = entry.id THEN entry ELSE store[id]]

\* storage: store.getAll(), in key order
RECURSIVE getAllJournalEntriesFrom(_, _)
getAllJournalEntriesFrom(store, ids) ==
    IF ids = {} THEN << >>
    ELSE LET least == CHOOSE id \in ids : \A other \in ids : id <= other
         IN  <<store[least]>> \o getAllJournalEntriesFrom(store, ids \ {least})

getAllJournalEntries(store) == getAllJournalEntriesFrom(store, DOMAIN store)

\* crypto.decrypt(envelope, key), the two-argument open that main.js and the
\* single-user auth.js call: opens what was sealed under key and the envelope's iv
decryptField(envelope, key) ==
    IF /\ Len(envelope.ciphertext) = 4
       /\ envelope.ciphertext[1] = "ct"
       /\ envelope.ciphertext[3] = key
       /\ envelope.ciphertext[4] = envelope.iv
    THEN [ok |-> TRUE, data |-> envelope.ciphertext[2]]
    ELSE [ok |-> FALSE, data |-> ""]

\* the map callback of loadAllJournalEntries: decrypted entry or placeholder
openEntry(entry, key) ==
    LET t == decryptField(entry.title, key)
        c == decryptField(entry.content, key)
    IN  IF t.ok /\ c.ok
        THEN [id |-> entry.id, timestamp |-> entry.timestamp,
              title |-> t.data, content |-> c.data]
        ELSE [id |-> entry.id, timestamp |-> entry.timestamp,
              title |-> "[Decryption Failed]",
              content |-> "[Content not available due to decryption error]"]

\* Array.prototype.sort((a, b) => b.timestamp - a.timestamp): stable insertion
RECURSIVE sortNewestFirst(_)
sortNewestFirst(seq) ==
    IF seq = << >> THEN << >>
    ELSE LET rest == sortNewestFirst(Tail(seq))
             x == Head(seq)
             k == Cardinality({j \in 1..Len(rest) : rest[j].timestamp > x.timestamp})
         IN  SubSeq(rest, 1, k) \o <<x>> \o SubSeq(rest, k + 1, Len(rest))

\* ------------------------------------ main.js with the single-user auth.js
\* the one username of the single-user auth.js
FIXED_USERNAME == "qwerty"

NoProfile ==
    [username |-> NullUser, kdfSalt |-> 0, encryptedIdentity |-> NoEnvelope, version |-> 0]
NoBundle == [userProfile |-> NoProfile, journalEntries |-> << >>]
NoItems == [k \in {} |-> ""]
NoCryptoCall == [data |-> << >>, key |-> NullKey, drawn |-> {}, sealed |-> << >>,
                 opened |-> [ok |-> FALSE, data |-> << >>]]

IdleMainOp ==
    [pc |-> "idle", fn |-> "none", username |-> NullUser, password |-> "",
     newPassword |-> "", profile |-> NoProfile, kdfSalt |-> 0, key |-> NullKey,
     newKey |-> NullKey, hash |-> << >>, identity |-> NoEnvelope, ok |-> TRUE,
     bundle |-> NoBundle, todo |-> << >>, confirmation |-> "",
     before |-> [profiles |-> [u \in {} |-> NoProfile],
                 entries |-> [id \in {} |-> NoEntry]]]

\* crypto.js of this variant: base64 text of a byte array, and back
bytesToBase64(bytes) == <<"base64", bytes>>
base64ToBytes(text) == IF Len(text) = 2 /\ text[1] = "base64" THEN text[2] ELSE << >>

\* crypto.js of this variant: PBKDF2 over (password, salt)
deriveKey(password, salt) == <<password, salt>>

\* what the single-user registerUser stores
singleUserProfile(salt, encryptedIdentity) ==
    [username |-> FIXED_USERNAME,
     kdfSalt |-> bytesToBase64(<<salt>>),
     encryptedIdentity |-> [ciphertext |-> bytesToBase64(encryptedIdentity.ciphertext),
                            iv |-> bytesToBase64(<<encryptedIdentity.iv>>)],
     version |-> CURRENT_DATA_VERSION]

\* storage: store.add of a profile; a present key is a ConstraintError
addUserProfile(store, profile) ==
    IF profile.username \in DOMAIN store
    THEN [ok |-> FALSE, store |-> store]
    ELSE [ok |-> TRUE, store |-> saveUserProfile(store, profile)]

\* storage: store.clear()
clearStore(store) == [k \in {} |-> store[k]]

\* auth.js of this variant: logout
logout(auth) == [username |-> NullUser, encryptionKey |-> NullKey]

\* getUserProfile(FIXED_USERNAME): the stored profile or nothing
getUserProfile(store, username) ==
    IF username \in DOMAIN store THEN store[username] ELSE NoProfile

\* ui of this variant: the login and register forms, the journal
renderAuthForms(u) == [u EXCEPT !.screen = "auth"]
renderJournalApp(u) == [u EXCEPT !.screen = "journal"]

\* ------------------------------------------------------------------ history
\* lastEvent: the handler that ran last; warnings: showWarningPopup calls in the
\* current idle period (2 stands for two or more); idleStart: what began the idle
\* period; expiryRan: the interval has run out; forcedLogout: a timer logged the
\* user out; staleInstall: the session was installed by a call that a logout
\* overtook during its key derivation
FreshHist == [lastEvent |-> "init", warnings |-> 0, idleStart |-> "session",
              expiryRan |-> FALSE, forcedLogout |-> FALSE, staleInstall |-> FALSE]

Min(a, b) == IF a < b THEN a ELSE b

SessionStarted(event, op) ==
    [FreshHist EXCEPT !.lastEvent = event, !.staleInstall = op.logoutDuringDerive]

ActivitySeen(h, event, u) ==
    [h EXCEPT !.lastEvent = event, !.warnings = 0,
              !.idleStart = IF u.warningShown THEN "warning_activity" ELSE "activity"]

Init ==
    /\ profiles = [u \in {} |-> IdleOp]
    /\ currentAuth = [username |-> NullUser, encryptionKey |-> NullKey]
    /\ ui = [timeLeft |-> SESSION_DURATION_SECONDS, warningShown |-> FALSE,
             popupHidden |-> TRUE, sessionTimerInterval |-> FALSE,
             sessionTimeoutId |-> NoTimeout, listeners |-> FALSE,
             screen |-> "register",
             journalList |-> << >>]
    /\ authOps = [i \in Slots |-> IdleOp]
    /\ entries = [id \in {} |-> NoEntry]
    /\ journalOp = IdleJournalOp
    /\ allJournalEntries = << >>
    /\ clock = 0
    /\ hist = FreshHist
    /\ mainOp = IdleMainOp
    /\ exported = NoBundle
    /\ sessionStorage = NoItems
    /\ cryptoCall = NoCryptoCall

\* ------------------------------------------------ registerUser, step by step
\* submit of #register-form: validation, then getUserProfile is issued
RegisterSubmit(i, username, masterPassword) ==
    /\ ui.screen = "register"
    /\ authOps[i].pc = "idle"
    /\ \A j \in Slots : j < i => authOps[j].pc # "idle"
    /\ IF Len(username) < MIN_USERNAME_LENGTH \/ Len(masterPassword) < MIN_PASSWORD_LENGTH
       THEN /\ hist' = [hist EXCEPT !.lastEvent = "step"]
            /\ UNCHANGED authOps
       ELSE /\ authOps' = [authOps EXCEPT ![i] =
                   [IdleOp EXCEPT !.pc = "getProfile", !.fn = "register",
                                  !.username = username, !.password = masterPassword,
                                  !.found = (username \in DOMAIN profiles)]]
            /\ hist' = [hist EXCEPT !.lastEvent = "step"]
    /\ UNCHANGED <<profiles, currentAuth, ui, journalVars, singleVars>>

\* variant: a registration that does not look at the profile it was handed
RegisterGotProfileUnchecked(i) ==
    /\ authOps[i].pc = "getProfile"
    /\ authOps[i].fn = "register"
    /\ \E salt \in Salts :
          authOps' = [authOps EXCEPT ![i].pc = "derive", ![i].kdfSalt = salt]
    /\ hist' = [hist EXCEPT !.lastEvent = "step"]
    /\ UNCHANGED <<profiles, currentAuth, ui, journalVars, singleVars>>

\* getUserProfile resolved: reject an existing name, else generateSalt and derive
RegisterGotProfile(i) ==
    /\ authOps[i].pc = "getProfile"
    /\ authOps[i].fn = "register"
    /\ IF authOps[i].found
       THEN /\ authOps' = [authOps EXCEPT ![i] = IdleOp]
            /\ hist' = [hist EXCEPT !.lastEvent = "register_rejected"]
       ELSE /\ \E salt \in Salts :
                   authOps' = [authOps EXCEPT ![i].pc = "derive", ![i].kdfSalt = salt]
            /\ hist' = [hist EXCEPT !.lastEvent = "step"]
    /\ UNCHANGED <<profiles, currentAuth, ui, journalVars, singleVars>>

\* deriveKeyFromPassword resolved: encrypt the identity payload under a fresh iv
RegisterDerived(i) ==
    /\ authOps[i].pc = "derive"
    /\ authOps[i].fn = "register"
    /\ \E iv \in Nonces :
          LET key == deriveKeyFromPassword(authOps[i].password, authOps[i].kdfSalt)
              payload == [username |-> authOps[i].username, version |-> CURRENT_DATA_VERSION]
          IN  authOps' = [authOps EXCEPT ![i].pc = "encrypt", ![i].key = key,
                                         ![i].identity = encrypt(payload, key, iv)]
    /\ hist' = [hist EXCEPT !.lastEvent = "step"]
    /\ UNCHANGED <<profiles, currentAuth, ui, journalVars, singleVars>>

\* encrypt resolved: saveUserProfile puts the profile
RegisterEncrypted(i) ==
    /\ authOps[i].pc = "encrypt"
    /\ authOps[i].fn = "register"
    /\ profiles' = saveUserProfile(profiles,
                      [username |-> authOps[i].username,
                       kdfSalt |-> authOps[i].kdfSalt,
                       encryptedIdentity |-> authOps[i].identity,
                       version |-> CURRENT_DATA_VERSION])
    /\ authOps' = [authOps EXCEPT ![i].pc = "save"]
    /\ hist' = [hist EXCEPT !.lastEvent = "step"]
    /\ UNCHANGED <<currentAuth, ui, journalVars, singleVars>>

\* variant: registration that stores the profile and leaves the session alone
RegisterSavedNoSession(i) ==
    /\ authOps[i].pc = "save"
    /\ authOps[i].fn = "register"
    /\ ui' = renderLoginForm(ui)
    /\ authOps' = [authOps EXCEPT ![i] = IdleOp]
    /\ hist' = [hist EXCEPT !.lastEvent = "register"]
    /\ UNCHANGED <<profiles, currentAuth, journalVars, singleVars>>

\* saveUserProfile resolved: install the session and render the journal
RegisterSaved(i) ==
    /\ authOps[i].pc = "save"
    /\ authOps[i].fn = "register"
    /\ currentAuth' = [username |-> authOps[i].username, encryptionKey |-> authOps[i].key]
    /\ ui' = renderMainJournalApp(ui)
    /\ authOps' = [authOps EXCEPT ![i] = IdleOp]
    /\ hist' = SessionStarted("register", authOps[i])
    /\ UNCHANGED <<profiles, journalVars, singleVars>>

\* --------------------------------------------------- loginUser, step by step
\* submit of #login-form: validation, then getUserProfile is issued
LoginSubmit(i, username, masterPassword) ==
    /\ ui.screen = "login"
    /\ authOps[i].pc = "idle"
    /\ \A j \in Slots : j < i => authOps[j].pc # "idle"
    /\ authOps' = [authOps EXCEPT ![i] =
           IF username \in DOMAIN profiles
           THEN [IdleOp EXCEPT !.pc = "getProfile", !.fn = "login",
                               !.username = username, !.password = masterPassword,
                               !.found = TRUE,
                               !.kdfSalt = profiles[username].kdfSalt,
                               !.identity = profiles[username].encryptedIdentity]
           ELSE [IdleOp EXCEPT !.pc = "getProfile", !.fn = "login",
                               !.username = username, !.password = masterPassword]]
    /\ hist' = [hist EXCEPT !.lastEvent = "step"]
    /\ UNCHANGED <<profiles, currentAuth, ui, journalVars, singleVars>>

\* getUserProfile resolved: unknown user fails, else derive from the stored salt
LoginGotProfile(i) ==
    /\ authOps[i].pc = "getProfile"
    /\ authOps[i].fn = "login"
    /\ IF authOps[i].found
       THEN /\ authOps' = [authOps EXCEPT ![i].pc = "derive"]
            /\ hist' = [hist EXCEPT !.lastEvent = "step"]
       ELSE /\ authOps' = [authOps EXCEPT ![i] = IdleOp]
            /\ hist' = [hist EXCEPT !.lastEvent = "step"]
    /\ UNCHANGED <<profiles, currentAuth, ui, journalVars, singleVars>>

\* deriveKeyFromPassword resolved: decrypt of the stored identity is issued
LoginDerived(i) ==
    /\ authOps[i].pc = "derive"
    /\ authOps[i].fn = "login"
    /\ authOps' = [authOps EXCEPT ![i].pc = "decrypt",
                      ![i].key = deriveKeyFromPassword(authOps[i].password, authOps[i].kdfSalt)]
    /\ hist' = [hist EXCEPT !.lastEvent = "step"]
    /\ UNCHANGED <<profiles, currentAuth, ui, journalVars, singleVars>>

\* variant: a loginUser that does not compare the opened username
loginVerdictNameUnchecked(op) ==
    LET opened == decrypt(op.identity.ciphertext, op.identity.iv, op.identity.authTag, op.key)
    IN  IF ~opened.ok THEN "invalid_credentials"
        ELSE IF opened.data.version # CURRENT_DATA_VERSION THEN "version_warned"
        ELSE "success"

\* what loginUser does once decrypt has settled
loginVerdict(op) ==
    LET opened == decrypt(op.identity.ciphertext, op.identity.iv, op.identity.authTag, op.key)
    IN  IF ~opened.ok THEN "invalid_credentials"
        ELSE IF opened.data.username # op.username THEN "corrupt_profile"
        ELSE IF opened.data.version # CURRENT_DATA_VERSION THEN "version_warned"
        ELSE "success"

\* decrypt settled: wrong key or foreign payload fails, else install the session
LoginDecrypted(i) ==
    /\ authOps[i].pc = "decrypt"
    /\ authOps[i].fn = "login"
    /\ IF loginVerdict(authOps[i]) \in {"success", "version_warned"}
       THEN /\ currentAuth' = [username |-> authOps[i].username,
                               encryptionKey |-> authOps[i].key]
            /\ ui' = renderMainJournalApp(ui)
            /\ hist' = SessionStarted("login", authOps[i])
       ELSE /\ hist' = [hist EXCEPT !.lastEvent =
                         IF loginVerdict(authOps[i]) = "corrupt_profile"
                         THEN "corrupt_profile" ELSE "step"]
            /\ UNCHANGED <<currentAuth, ui>>
    /\ authOps' = [authOps EXCEPT ![i] = IdleOp]
    /\ UNCHANGED <<profiles, journalVars, singleVars>>

\* ------------------------------------------------------------- ui handlers
\* the links under the forms
ShowLoginForm ==
    /\ ui.screen = "register"
    /\ ui' = renderLoginForm(ui)
    /\ hist' = [hist EXCEPT !.lastEvent = "step"]
    /\ UNCHANGED <<profiles, currentAuth, authOps, journalVars, singleVars>>

ShowRegisterForm ==
    /\ ui.screen = "login"
    /\ ui' = [ui EXCEPT !.screen = "register"]
    /\ hist' = [hist EXCEPT !.lastEvent = "step"]
    /\ UNCHANGED <<profiles, currentAuth, authOps, journalVars, singleVars>>

\* click on #logout-button
LogoutClick ==
    /\ ui.screen = "main"
    /\ currentAuth' = logoutUser(currentAuth)
    /\ ui' = stopSessionTimer(renderLoginForm(ui))
    /\ authOps' = [i \in Slots |->
           IF authOps[i].pc = "derive"
           THEN [authOps[i] EXCEPT !.logoutDuringDerive = TRUE] ELSE authOps[i]]
    /\ journalOp' = [journalOp EXCEPT !.logoutAt =
           IF journalOp.logoutAt = "" THEN journalOp.pc ELSE journalOp.logoutAt]
    /\ hist' = [hist EXCEPT !.lastEvent = "logout"]
    /\ UNCHANGED <<profiles, entries, allJournalEntries, clock, singleVars>>

\* one second passes for the pending inactivity timeout
Elapse(u) ==
    IF u.sessionTimeoutId > 0
    THEN [u EXCEPT !.sessionTimeoutId = u.sessionTimeoutId - 1] ELSE u

\* the one-second interval fires
Tick ==
    /\ ui.sessionTimerInterval
    /\ ui.sessionTimeoutId # 0
    /\ LET r == sessionTimerTick(ui, currentAuth, profiles)
       IN  /\ ui' = Elapse(r.ui)
           /\ currentAuth' = r.auth
           /\ hist' = [hist EXCEPT
                          !.lastEvent = IF r.loggedOut THEN "forced_logout"
                                        ELSE IF r.expired THEN "expire" ELSE "tick",
                          !.warnings = IF r.warned THEN Min(hist.warnings + 1, 2)
                                       ELSE hist.warnings,
                          !.expiryRan = hist.expiryRan \/ r.expired,
                          !.forcedLogout = hist.forcedLogout \/ r.loggedOut]
    /\ UNCHANGED <<profiles, authOps, journalVars, singleVars>>

\* a second passes while only the inactivity timeout is pending
IdleSecond ==
    /\ ~ui.sessionTimerInterval
    /\ ui.sessionTimeoutId > 0
    /\ ui' = Elapse(ui)
    /\ hist' = [hist EXCEPT !.lastEvent = "idle"]
    /\ UNCHANGED <<profiles, currentAuth, authOps, journalVars, singleVars>>

\* the inactivity timeout fires
TimeoutFire ==
    /\ ui.sessionTimeoutId = 0
    /\ LET r == inactivityTimeout([ui EXCEPT !.sessionTimeoutId = NoTimeout],
                                  currentAuth, profiles)
       IN  /\ ui' = r.ui
           /\ currentAuth' = r.auth
           /\ hist' = [hist EXCEPT
                          !.lastEvent = IF r.loggedOut THEN "forced_logout" ELSE "timeout",
                          !.forcedLogout = hist.forcedLogout \/ r.loggedOut]
    /\ UNCHANGED <<profiles, authOps, journalVars, singleVars>>

\* mousemove, keydown, click or scroll on the document
Activity ==
    /\ ui.listeners
    /\ ui' = resetSessionTimeout(ui)
    /\ hist' = ActivitySeen(hist, "activity", ui)
    /\ UNCHANGED <<profiles, currentAuth, authOps, journalVars, singleVars>>

\* click on #dismiss-warning: its own handler, then the document's click listener
DismissWarning ==
    /\ ~ui.popupHidden
    /\ IF ui.listeners
       THEN /\ ui' = resetSessionTimeout(hideWarningPopup(ui))
            /\ hist' = ActivitySeen(hist, "dismiss", ui)
       ELSE /\ ui' = hideWarningPopup(ui)
            /\ hist' = [hist EXCEPT !.lastEvent = "dismiss"]
    /\ UNCHANGED <<profiles, currentAuth, authOps, journalVars, singleVars>>

\* --------------------------------------- handleSaveJournalEntry, step by step
\* submit of the entry form: validation, the key is read from the slot (an await
\* of a plain value resumes before any other event), then the title is sealed
SaveSubmit(title, content) ==
    /\ ui.screen \in {"main", "journal"}
    /\ journalOp.pc = "idle"
    /\ clock < MaxEntries
    /\ LET encryptionKey == getCurrentEncryptionKey(currentAuth).value
           started == [IdleJournalOp EXCEPT !.title = title, !.content = content,
                                            !.key = encryptionKey]
       IN  IF title = "" \/ content = "" \/ encryptionKey = NullKey
           THEN UNCHANGED journalOp
           ELSE \E iv \in Nonces :
                   journalOp' = [started EXCEPT !.pc = "save_title",
                       !.encryptedTitle = encrypt(title, keyInUse(started, currentAuth), iv)]
    /\ hist' = [hist EXCEPT !.lastEvent = "step"]
    /\ UNCHANGED <<profiles, currentAuth, ui, authOps, entries, allJournalEntries, clock, singleVars>>

\* the title is sealed: seal the content
SaveTitleEncrypted ==
    /\ journalOp.pc = "save_title"
    /\ \E iv \in Nonces :
          journalOp' = [journalOp EXCEPT !.pc = "save_content",
              !.encryptedContent = encrypt(journalOp.content,
                                           keyInUse(journalOp, currentAuth), iv)]
    /\ hist' = [hist EXCEPT !.lastEvent = "step"]
    /\ UNCHANGED <<profiles, currentAuth, ui, authOps, entries, allJournalEntries, clock, singleVars>>

\* the content is sealed: the entry gets its id and timestamp and is added
SaveContentEncrypted ==
    /\ journalOp.pc = "save_content"
    /\ clock' = clock + 1
    /\ entries' = addJournalEntry(entries,
                     [id |-> clock', timestamp |-> clock',
                      title |-> journalOp.encryptedTitle,
                      content |-> journalOp.encryptedContent])
    /\ journalOp' = [journalOp EXCEPT !.pc = "save_stored"]
    /\ hist' = [hist EXCEPT !.lastEvent = "step"]
    /\ UNCHANGED <<profiles, currentAuth, ui, authOps, allJournalEntries, singleVars>>

\* the entry is stored: loadAllJournalEntries starts and reads the key again;
\* without one it throws and renders an empty list, else getAllJournalEntries
\* is issued
SaveStored ==
    /\ journalOp.pc = "save_stored"
    /\ LET encryptionKey == getCurrentEncryptionKey(currentAuth).value
       IN  IF encryptionKey = NullKey
           THEN journalOp' = IdleJournalOp
           ELSE journalOp' = [journalOp EXCEPT !.pc = "load_entries",
                                 !.key = encryptionKey, !.logoutAt = "",
                                 !.encryptedEntries = getAllJournalEntries(entries)]
    /\ hist' = [hist EXCEPT !.lastEvent = "step"]
    /\ UNCHANGED <<profiles, currentAuth, ui, authOps, entries, allJournalEntries, clock, singleVars>>

\* the stored entries arrived: every one is opened with the handler's key
LoadGotEntries ==
    /\ journalOp.pc = "load_entries"
    /\ journalOp' = [journalOp EXCEPT !.pc = "load_decrypt",
                        !.key = keyInUse(journalOp, currentAuth)]
    /\ hist' = [hist EXCEPT !.lastEvent = "step"]
    /\ UNCHANGED <<profiles, currentAuth, ui, authOps, entries, allJournalEntries, clock, singleVars>>

\* variant: a load that gives up the whole batch when one entry does not open
LoadDecryptedAllOrNothing ==
    /\ journalOp.pc = "load_decrypt"
    /\ LET opened == [k \in 1..Len(journalOp.encryptedEntries) |->
                         openEntry(journalOp.encryptedEntries[k], journalOp.key)]
       IN  allJournalEntries' =
              IF \E k \in 1..Len(opened) : opened[k].title = "[Decryption Failed]"
              THEN << >>
              ELSE sortNewestFirst(opened)
    /\ journalOp' = IdleJournalOp
    /\ hist' = [hist EXCEPT !.lastEvent = "step"]
    /\ UNCHANGED <<profiles, currentAuth, ui, authOps, entries, clock, singleVars>>

\* Promise.all settled: the cache takes the opened entries, newest first
LoadDecrypted ==
    /\ journalOp.pc = "load_decrypt"
    /\ allJournalEntries' = sortNewestFirst(
           [k \in 1..Len(journalOp.encryptedEntries) |->
               openEntry(journalOp.encryptedEntries[k], journalOp.key)])
    /\ journalOp' = IdleJournalOp
    /\ hist' = [hist EXCEPT !.lastEvent = "step"]
    /\ UNCHANGED <<profiles, currentAuth, ui, authOps, entries, clock, singleVars>>

\* ------------------------------- main.js: handleRegister and registerUser
\* submit of the register form: the two passwords must match, then
\* registerUser(masterPassword) issues getUserProfile
SingleRegisterSubmit(masterPassword, confirmPassword) ==
    /\ ui.screen = "auth"
    /\ mainOp.pc = "idle"
    /\ IF masterPassword # confirmPassword
       THEN UNCHANGED mainOp
       ELSE mainOp' = [IdleMainOp EXCEPT !.pc = "getProfile", !.fn = "register",
                          !.password = masterPassword,
                          !.profile = getUserProfile(profiles, FIXED_USERNAME)]
    /\ hist' = [hist EXCEPT !.lastEvent = "step"]
    /\ UNCHANGED <<profiles, currentAuth, ui, authOps, journalVars, exported, sessionStorage, cryptoCall>>

\* getUserProfile resolved: a profile means 'User already registered.', else
\* generateSalt and deriveKey
SingleRegisterGotProfile ==
    /\ mainOp.pc = "getProfile"
    /\ mainOp.fn = "register"
    /\ IF mainOp.profile # NoProfile
       THEN /\ mainOp' = IdleMainOp
            /\ hist' = [hist EXCEPT !.lastEvent = "register_rejected"]
       ELSE /\ \E salt \in Salts : mainOp' = [mainOp EXCEPT !.pc = "derive", !.kdfSalt = salt]
            /\ hist' = [hist EXCEPT !.lastEvent = "step"]
    /\ UNCHANGED <<profiles, currentAuth, ui, authOps, journalVars, exported, sessionStorage, cryptoCall>>

\* deriveKey and exportCryptoKey resolved: the identity text is sealed
SingleRegisterDerived ==
    /\ mainOp.pc = "derive"
    /\ mainOp.fn = "register"
    /\ \E iv \in Nonces :
          LET key == deriveKey(mainOp.password, <<mainOp.kdfSalt>>)
          IN  mainOp' = [mainOp EXCEPT !.pc = "encrypt", !.key = key,
                            !.identity = encrypt("identity_check", key, iv)]
    /\ hist' = [hist EXCEPT !.lastEvent = "step"]
    /\ UNCHANGED <<profiles, currentAuth, ui, authOps, journalVars, exported, sessionStorage, cryptoCall>>

\* encrypt resolved: addUserProfile adds the profile
SingleRegisterEncrypted ==
    /\ mainOp.pc = "encrypt"
    /\ mainOp.fn = "register"
    /\ LET added == addUserProfile(profiles,
                       singleUserProfile(mainOp.kdfSalt, mainOp.identity))
       IN  /\ profiles' = added.store
           /\ mainOp' = [mainOp EXCEPT !.pc = "save", !.ok = added.ok]
    /\ hist' = [hist EXCEPT !.lastEvent = "step"]
    /\ UNCHANGED <<currentAuth, ui, authOps, journalVars, exported, sessionStorage, cryptoCall>>

\* addUserProfile settled: registerUser returns without a session; handleRegister
\* shows the forms again ('Please log in')
SingleRegisterSaved ==
    /\ mainOp.pc = "save"
    /\ mainOp.fn = "register"
    /\ IF mainOp.ok
       THEN /\ ui' = renderAuthForms(ui)
            /\ hist' = [hist EXCEPT !.lastEvent = "register_single"]
       ELSE /\ hist' = [hist EXCEPT !.lastEvent = "step"]
            /\ UNCHANGED ui
    /\ mainOp' = IdleMainOp
    /\ UNCHANGED <<profiles, currentAuth, authOps, journalVars, exported, sessionStorage, cryptoCall>>

\* ------------------------------------- main.js: handleLogin and loginUser
\* submit of the login form: loginUser(masterPassword) issues getUserProfile
SingleLoginSubmit(masterPassword) ==
    /\ ui.screen = "auth"
    /\ mainOp.pc = "idle"
    /\ mainOp' = [IdleMainOp EXCEPT !.pc = "login_getProfile", !.fn = "login",
                     !.password = masterPassword,
                     !.profile = getUserProfile(profiles, FIXED_USERNAME)]
    /\ hist' = [hist EXCEPT !.lastEvent = "step"]
    /\ UNCHANGED <<profiles, currentAuth, ui, authOps, journalVars, exported, sessionStorage, cryptoCall>>

\* loginUser: getUserProfile resolved; no profile throws 'User not registered'
\* into the caller's catch (handleImportData's logs out and shows the forms),
\* else deriveKey
SingleLoginGotProfile ==
    /\ mainOp.pc = "login_getProfile"
    /\ mainOp.fn \in {"login", "export", "import"}
    /\ mainOp' = IF mainOp.profile = NoProfile THEN IdleMainOp
                 ELSE [mainOp EXCEPT !.pc = "login_derive"]
    /\ IF mainOp.profile = NoProfile /\ mainOp.fn = "import"
       THEN /\ currentAuth' = logout(currentAuth)
            /\ ui' = renderAuthForms(ui)
       ELSE UNCHANGED <<currentAuth, ui>>
    /\ hist' = [hist EXCEPT !.lastEvent = "step"]
    /\ UNCHANGED <<profiles, authOps, journalVars, exported, sessionStorage, cryptoCall>>

\* loginUser: deriveKey resolved, decrypt of the stored identity is issued
SingleLoginDerived ==
    /\ mainOp.pc = "login_derive"
    /\ mainOp.fn \in {"login", "export", "import"}
    /\ mainOp' = [mainOp EXCEPT !.pc = "login_decrypt",
                     !.key = deriveKey(mainOp.password, base64ToBytes(mainOp.profile.kdfSalt))]
    /\ hist' = [hist EXCEPT !.lastEvent = "step"]
    /\ UNCHANGED <<profiles, currentAuth, ui, authOps, journalVars, exported, sessionStorage, cryptoCall>>

\* loginUser: does the identity open to 'identity_check' under the derived key
singleLoginAccepts(op) ==
    LET iv == base64ToBytes(op.profile.encryptedIdentity.iv)
        opened == decryptField(
                     [ciphertext |-> base64ToBytes(op.profile.encryptedIdentity.ciphertext),
                      iv |-> IF iv = << >> THEN 0 ELSE iv[1]],
                     op.key)
    IN  opened.ok /\ opened.data = "identity_check"

\* decrypt settled for handleLogin: on success the session is set, the journal is
\* rendered and loadAllJournalEntries reads the key and issues getAllJournalEntries
SingleLoginDecrypted ==
    /\ mainOp.pc = "login_decrypt"
    /\ mainOp.fn = "login"
    /\ journalOp.pc = "idle"
    /\ IF singleLoginAccepts(mainOp)
       THEN /\ currentAuth' = [username |-> mainOp.profile.username,
                               encryptionKey |-> mainOp.key]
            /\ ui' = renderJournalApp(ui)
            /\ journalOp' = [IdleJournalOp EXCEPT !.pc = "load_entries",
                                !.key = mainOp.key,
                                !.encryptedEntries = getAllJournalEntries(entries)]
            /\ hist' = [FreshHist EXCEPT !.lastEvent = "login_single"]
       ELSE /\ hist' = [hist EXCEPT !.lastEvent = "step"]
            /\ UNCHANGED <<currentAuth, ui, journalOp>>
    /\ mainOp' = IdleMainOp
    /\ UNCHANGED <<profiles, authOps, entries, allJournalEntries, clock, exported, sessionStorage, cryptoCall>>

\* main.js: handleLogout, confirmed: the session and the cache are cleared
HandleLogout ==
    /\ ui.screen = "journal"
    /\ currentAuth' = logout(currentAuth)
    /\ allJournalEntries' = << >>
    /\ ui' = renderAuthForms(ui)
    /\ journalOp' = [journalOp EXCEPT !.logoutAt =
           IF journalOp.logoutAt = "" THEN journalOp.pc ELSE journalOp.logoutAt]
    /\ hist' = [hist EXCEPT !.lastEvent = "logout_single"]
    /\ UNCHANGED <<profiles, authOps, entries, clock, mainOp, exported, sessionStorage, cryptoCall>>

\* --------------------------------------------- main.js: handleExportData
\* JSON.stringify of the bundle: strings and numbers keep their value, a byte
\* array does not come back from JSON.parse as a byte array
jsonEnvelope(envelope) ==
    IF envelope.ciphertext[1] = "json" THEN envelope
    ELSE [iv |-> <<"json", envelope.iv>>,
          ciphertext |-> <<"json", envelope.ciphertext>>,
          authTag |-> <<"json", envelope.authTag>>]

JSONstringify(bundle) ==
    [userProfile |-> bundle.userProfile,
     journalEntries |->
        [k \in 1..Len(bundle.journalEntries) |->
            [id |-> bundle.journalEntries[k].id,
             timestamp |-> bundle.journalEntries[k].timestamp,
             title |-> jsonEnvelope(bundle.journalEntries[k].title),
             content |-> jsonEnvelope(bundle.journalEntries[k].content)]]]

\* utils.safeJSONParse of a file written by downloadFile
safeJSONParse(fileContent) == fileContent

\* the prompt is answered: loginUser(masterPassword) issues getUserProfile
ExportSubmit(masterPassword) ==
    /\ ui.screen = "journal"
    /\ mainOp.pc = "idle"
    /\ exported = NoBundle
    /\ mainOp' = [IdleMainOp EXCEPT !.pc = "login_getProfile", !.fn = "export",
                     !.password = masterPassword,
                     !.profile = getUserProfile(profiles, FIXED_USERNAME)]
    /\ hist' = [hist EXCEPT !.lastEvent = "step"]
    /\ UNCHANGED <<profiles, currentAuth, ui, authOps, journalVars, exported, sessionStorage, cryptoCall>>

\* loginUser settled for the export: on success the session is set again and
\* exportKeys issues getUserProfile(currentUsername)
ExportLoggedIn ==
    /\ mainOp.pc = "login_decrypt"
    /\ mainOp.fn = "export"
    /\ IF singleLoginAccepts(mainOp)
       THEN /\ currentAuth' = [username |-> mainOp.profile.username,
                               encryptionKey |-> mainOp.key]
            /\ mainOp' = [mainOp EXCEPT !.pc = "export_profile",
                             !.profile = getUserProfile(profiles, mainOp.profile.username)]
       ELSE /\ mainOp' = IdleMainOp
            /\ UNCHANGED currentAuth
    /\ hist' = [hist EXCEPT !.lastEvent = "step"]
    /\ UNCHANGED <<profiles, ui, authOps, journalVars, exported, sessionStorage, cryptoCall>>

\* exportKeys resolved: the stored profile goes into the bundle and
\* getAllJournalEntries is issued
ExportGotProfile ==
    /\ mainOp.pc = "export_profile"
    /\ mainOp' = IF mainOp.profile = NoProfile THEN IdleMainOp
                 ELSE [mainOp EXCEPT !.pc = "export_entries",
                          !.bundle = [userProfile |-> mainOp.profile,
                                      journalEntries |-> getAllJournalEntries(entries)]]
    /\ hist' = [hist EXCEPT !.lastEvent = "step"]
    /\ UNCHANGED <<profiles, currentAuth, ui, authOps, journalVars, exported, sessionStorage, cryptoCall>>

\* getAllJournalEntries resolved: downloadFile writes the bundle as JSON
ExportGotEntries ==
    /\ mainOp.pc = "export_entries"
    /\ exported' = JSONstringify(mainOp.bundle)
    /\ mainOp' = IdleMainOp
    /\ hist' = [hist EXCEPT !.lastEvent = "export"]
    /\ UNCHANGED <<profiles, currentAuth, ui, authOps, journalVars, sessionStorage, cryptoCall>>

\* --------------------------------------------- main.js: handleImportData
\* window.location.reload(): the page starts again, the stores stay
reload(u) == renderAuthForms(u)

\* a file is chosen and the prompt answered: the profile store is cleared
\* (before: the two stores as the call found them, kept for the properties)
ImportSubmit(file, masterPassword) ==
    /\ ui.screen = "journal"
    /\ mainOp.pc = "idle"
    /\ file # NoBundle
    /\ mainOp' = [IdleMainOp EXCEPT !.pc = "import_cleared", !.fn = "import",
                     !.password = masterPassword, !.bundle = safeJSONParse(file),
                     !.before = [profiles |-> profiles, entries |-> entries]]
    /\ profiles' = clearStore(profiles)
    /\ hist' = [hist EXCEPT !.lastEvent = "step"]
    /\ UNCHANGED <<currentAuth, ui, authOps, journalVars, exported, sessionStorage, cryptoCall>>

\* clearStore resolved: the imported profile is added and loginUser issues
\* getUserProfile
ImportCleared ==
    /\ mainOp.pc = "import_cleared"
    /\ LET added == addUserProfile(profiles, mainOp.bundle.userProfile)
       IN  /\ profiles' = added.store
           /\ mainOp' = [mainOp EXCEPT !.pc = "login_getProfile",
                            !.profile = getUserProfile(added.store, FIXED_USERNAME)]
    /\ hist' = [hist EXCEPT !.lastEvent = "step"]
    /\ UNCHANGED <<currentAuth, ui, authOps, journalVars, exported, sessionStorage, cryptoCall>>

\* loginUser settled for the import: on success the session is set and the entry
\* store is cleared; otherwise the profile store is cleared
ImportLoggedIn ==
    /\ mainOp.pc = "login_decrypt"
    /\ mainOp.fn = "import"
    /\ IF singleLoginAccepts(mainOp)
       THEN /\ currentAuth' = [username |-> mainOp.profile.username,
                               encryptionKey |-> mainOp.key]
            /\ entries' = clearStore(entries)
            /\ mainOp' = [mainOp EXCEPT !.pc = "import_entries",
                             !.todo = mainOp.bundle.journalEntries]
            /\ UNCHANGED profiles
       ELSE /\ profiles' = clearStore(profiles)
            /\ mainOp' = [mainOp EXCEPT !.pc = "import_failed"]
            /\ UNCHANGED <<currentAuth, entries>>
    /\ hist' = [hist EXCEPT !.lastEvent = "step"]
    /\ UNCHANGED <<ui, authOps, journalOp, allJournalEntries, clock, exported, sessionStorage, cryptoCall>>

\* the clean-up resolved: 'Incorrect master password for imported data.' is
\* thrown, the catch logs out and shows the forms
ImportFailed ==
    /\ mainOp.pc = "import_failed"
    /\ currentAuth' = logout(currentAuth)
    /\ ui' = renderAuthForms(ui)
    /\ mainOp' = IdleMainOp
    /\ hist' = [hist EXCEPT !.lastEvent = "import_failed"]
    /\ UNCHANGED <<profiles, authOps, journalVars, exported, sessionStorage, cryptoCall>>

\* the loop over the imported entries: addJournalEntry of the next one; a taken
\* id rejects and ends in the catch
ImportAddEntry ==
    /\ mainOp.pc = "import_entries"
    /\ mainOp.todo # << >>
    /\ IF Head(mainOp.todo).id \in DOMAIN entries
       THEN /\ currentAuth' = logout(currentAuth)
            /\ ui' = renderAuthForms(ui)
            /\ mainOp' = IdleMainOp
            /\ UNCHANGED entries
       ELSE /\ entries' = addJournalEntry(entries, Head(mainOp.todo))
            /\ mainOp' = [mainOp EXCEPT !.todo = Tail(mainOp.todo)]
            /\ UNCHANGED <<currentAuth, ui>>
    /\ hist' = [hist EXCEPT !.lastEvent = "step"]
    /\ UNCHANGED <<profiles, authOps, journalOp, allJournalEntries, clock, exported, sessionStorage, cryptoCall>>

\* every entry is added: the page reloads, which ends the session, the cache
\* and every call in flight
ImportDone ==
    /\ mainOp.pc = "import_entries"
    /\ mainOp.todo = << >>
    /\ currentAuth' = logout(currentAuth)
    /\ allJournalEntries' = << >>
    /\ journalOp' = IdleJournalOp
    /\ mainOp' = IdleMainOp
    /\ ui' = reload(ui)
    /\ hist' = [hist EXCEPT !.lastEvent = "import"]
    /\ UNCHANGED <<profiles, authOps, entries, clock, exported, sessionStorage, cryptoCall>>

Next ==
    \/ \E u \in Usernames, p \in Passwords : RegisterSubmit(1, u, p)
    \/ RegisterGotProfile(1)
    \/ RegisterDerived(1)
    \/ RegisterEncrypted(1)
    \/ RegisterSaved(1)
    \/ \E u \in Usernames, p \in Passwords : LoginSubmit(1, u, p)
    \/ LoginGotProfile(1)
    \/ LoginDerived(1)
    \/ LoginDecrypted(1)
    \/ ShowLoginForm
    \/ ShowRegisterForm
    \/ LogoutClick
    \/ Tick
    \/ IdleSecond
    \/ TimeoutFire
    \/ Activity
    \/ DismissWarning

Spec == Init /\ [][Next]_vars

\* registrations and logins in flight together, against each other and against
\* logout; no time passes
NextRace ==
    \/ \E i \in Slots, u \in Usernames, p \in Passwords : RegisterSubmit(i, u, p)
    \/ \E i \in Slots : RegisterGotProfile(i)
    \/ \E i \in Slots : RegisterDerived(i)
    \/ \E i \in Slots : RegisterEncrypted(i)
    \/ \E i \in Slots : RegisterSaved(i)
    \/ \E i \in Slots, u \in Usernames, p \in Passwords : LoginSubmit(i, u, p)
    \/ \E i \in Slots : LoginGotProfile(i)
    \/ \E i \in Slots : LoginDerived(i)
    \/ \E i \in Slots : LoginDecrypted(i)
    \/ ShowLoginForm
    \/ ShowRegisterForm
    \/ LogoutClick

SpecRace == Init /\ [][NextRace]_vars

\* the journal handlers against logout and a later login; no time passes
NextJournal ==
    \/ \E u \in Usernames, p \in Passwords : RegisterSubmit(1, u, p)
    \/ RegisterGotProfile(1)
    \/ RegisterDerived(1)
    \/ RegisterEncrypted(1)
    \/ RegisterSaved(1)
    \/ \E u \in Usernames, p \in Passwords : LoginSubmit(1, u, p)
    \/ LoginGotProfile(1)
    \/ LoginDerived(1)
    \/ LoginDecrypted(1)
    \/ ShowLoginForm
    \/ ShowRegisterForm
    \/ LogoutClick
    \/ \E t \in Titles, c \in Contents : SaveSubmit(t, c)
    \/ SaveTitleEncrypted
    \/ SaveContentEncrypted
    \/ SaveStored
    \/ LoadGotEntries
    \/ LoadDecrypted

SpecJournal == Init /\ [][NextJournal]_vars

\* ------------------------------ auth.js that keeps its session in sessionStorage
\* utils.stringToUint8Array, utils.uint8ArrayToBase64, utils.base64ToUint8Array
stringToUint8Array(text) == <<"utf8", text>>
uint8ArrayToBase64(bytes) == <<"base64", bytes>>
base64ToUint8Array(text) == IF Len(text) = 2 /\ text[1] = "base64" THEN text[2] ELSE << >>

\* crypto.deriveKey(password, salt, mode), mode 'hash' or 'encryption'
deriveKeyFor(password, salt, mode) == <<mode, password, salt>>

\* crypto.compareHashes
compareHashes(a, b) == a = b

\* sessionStorage.setItem, sessionStorage.removeItem; every item is a string,
\* here a tagged sequence: <<"text", s>> or the <<"base64", bytes>> of the codec
setItem(items, name, value) ==
    [k \in DOMAIN items \cup {name} |-> IF k = name THEN value ELSE items[k]]
removeItem(items, name) == [k \in DOMAIN items \ {name} |-> items[k]]

\* getCurrentUsername
getCurrentUsername(items) ==
    IF "webx_journal_username" \in DOMAIN items
    THEN items["webx_journal_username"][2]
    ELSE NullUser

\* registerUser(username, masterPassword): validation, then the password hash
\* is derived with the username as salt
SessionRegisterSubmit(username, masterPassword) ==
    /\ ui.screen = "session_login"
    /\ mainOp.pc = "idle"
    /\ IF username = "" \/ masterPassword = ""
       THEN UNCHANGED mainOp
       ELSE mainOp' = [IdleMainOp EXCEPT !.pc = "hash", !.fn = "session_register",
                          !.username = username, !.password = masterPassword]
    /\ hist' = [hist EXCEPT !.lastEvent = "step"]
    /\ UNCHANGED <<profiles, currentAuth, ui, authOps, journalVars, exported, sessionStorage, cryptoCall>>

\* deriveKey resolved: getUserProfile is issued
SessionRegisterHashed ==
    /\ mainOp.pc = "hash"
    /\ mainOp.fn = "session_register"
    /\ mainOp' = [mainOp EXCEPT !.pc = "getProfile",
           !.hash = deriveKeyFor(mainOp.password, stringToUint8Array(mainOp.username), "hash"),
           !.profile = getUserProfile(profiles, mainOp.username)]
    /\ hist' = [hist EXCEPT !.lastEvent = "step"]
    /\ UNCHANGED <<profiles, currentAuth, ui, authOps, journalVars, exported, sessionStorage, cryptoCall>>

\* getUserProfile resolved: 'User already exists.' or saveUserProfile
SessionRegisterGotProfile ==
    /\ mainOp.pc = "getProfile"
    /\ mainOp.fn = "session_register"
    /\ IF mainOp.profile # NoProfile
       THEN /\ mainOp' = IdleMainOp
            /\ hist' = [hist EXCEPT !.lastEvent = "register_rejected"]
            /\ UNCHANGED profiles
       ELSE /\ mainOp' = [mainOp EXCEPT !.pc = "save"]
            /\ profiles' = saveUserProfile(profiles,
                              [username |-> mainOp.username,
                               hashedPassword |-> uint8ArrayToBase64(mainOp.hash)])
            /\ hist' = [hist EXCEPT !.lastEvent = "step"]
    /\ UNCHANGED <<currentAuth, ui, authOps, journalVars, exported, sessionStorage, cryptoCall>>

\* saveUserProfile resolved: 'Registration successful! Please log in.'
SessionRegisterSaved ==
    /\ mainOp.pc = "save"
    /\ mainOp.fn = "session_register"
    /\ mainOp' = IdleMainOp
    /\ hist' = [hist EXCEPT !.lastEvent = "register_session"]
    /\ UNCHANGED <<profiles, currentAuth, ui, authOps, journalVars, exported, sessionStorage, cryptoCall>>

\* loginUser(username, masterPassword): validation, getUserProfile is issued
SessionLoginSubmit(username, masterPassword) ==
    /\ ui.screen = "session_login"
    /\ mainOp.pc = "idle"
    /\ IF username = "" \/ masterPassword = ""
       THEN UNCHANGED mainOp
       ELSE mainOp' = [IdleMainOp EXCEPT !.pc = "login_getProfile", !.fn = "session_login",
                          !.username = username, !.password = masterPassword,
                          !.profile = getUserProfile(profiles, username)]
    /\ hist' = [hist EXCEPT !.lastEvent = "step"]
    /\ UNCHANGED <<profiles, currentAuth, ui, authOps, journalVars, exported, sessionStorage, cryptoCall>>

\* getUserProfile resolved: 'User not found.' or the hash of the input is derived
SessionLoginGotProfile ==
    /\ mainOp.pc = "login_getProfile"
    /\ mainOp.fn = "session_login"
    /\ mainOp' = IF mainOp.profile = NoProfile THEN IdleMainOp
                 ELSE [mainOp EXCEPT !.pc = "login_hash"]
    /\ hist' = [hist EXCEPT !.lastEvent = "step"]
    /\ UNCHANGED <<profiles, currentAuth, ui, authOps, journalVars, exported, sessionStorage, cryptoCall>>

\* deriveKey(.., 'hash') and compareHashes resolved: 'Incorrect password.' or the
\* master key is derived
SessionLoginHashed ==
    /\ mainOp.pc = "login_hash"
    /\ mainOp.fn = "session_login"
    /\ LET salt == stringToUint8Array(mainOp.username)
           inputHashedPassword == deriveKeyFor(mainOp.password, salt, "hash")
           storedHashedPassword == base64ToUint8Array(mainOp.profile.hashedPassword)
       IN  mainOp' = IF compareHashes(inputHashedPassword, storedHashedPassword)
                     THEN [mainOp EXCEPT !.pc = "login_key"]
                     ELSE IdleMainOp
    /\ hist' = [hist EXCEPT !.lastEvent = "step"]
    /\ UNCHANGED <<profiles, currentAuth, ui, authOps, journalVars, exported, sessionStorage, cryptoCall>>

\* deriveKey(.., 'encryption') resolved: the master key and the username are
\* written to sessionStorage
SessionLoginKeyDerived ==
    /\ mainOp.pc = "login_key"
    /\ mainOp.fn = "session_login"
    /\ LET masterKey == deriveKeyFor(mainOp.password,
                                     stringToUint8Array(mainOp.username), "encryption")
       IN  sessionStorage' =
              setItem(setItem(sessionStorage, "webx_journal_master_key",
                              uint8ArrayToBase64(masterKey)),
                      "webx_journal_username", <<"text", mainOp.username>>)
    /\ ui' = [ui EXCEPT !.screen = "session_main"]
    /\ mainOp' = IdleMainOp
    /\ hist' = [hist EXCEPT !.lastEvent = "login_session"]
    /\ UNCHANGED <<profiles, currentAuth, authOps, journalVars, exported, cryptoCall>>

\* logoutUser: both items are removed and the page reloads, which ends every
\* call in flight
SessionLogout ==
    /\ ui.screen = "session_main"
    /\ sessionStorage' = removeItem(removeItem(sessionStorage, "webx_journal_master_key"),
                                    "webx_journal_username")
    /\ ui' = [ui EXCEPT !.screen = "session_login"]
    /\ mainOp' = IdleMainOp
    /\ journalOp' = IdleJournalOp
    /\ hist' = [hist EXCEPT !.lastEvent = "logout_session"]
    /\ UNCHANGED <<profiles, currentAuth, authOps, entries, allJournalEntries, clock, exported, cryptoCall>>

\* crypto.encryptData(data, key) and crypto.decryptData(bytes, key, iv)
encryptData(data, key, iv) == [data |-> <<"ct", data, key, iv>>, iv |-> <<iv>>]
decryptData(bytes, key, iv) ==
    IF Len(bytes) = 4 /\ bytes[1] = "ct" /\ bytes[3] = key /\ <<bytes[4]>> = iv
    THEN [ok |-> TRUE, data |-> bytes[2]]
    ELSE [ok |-> FALSE, data |-> ""]

\* the master key the running session reads back from sessionStorage
sessionMasterKey(items) ==
    IF "webx_journal_master_key" \in DOMAIN items
    THEN base64ToUint8Array(items["webx_journal_master_key"])
    ELSE NullKey

\* db.saveEntry(null, title, content) of the running session: the content is
\* sealed under the master key of the session
SessionSaveSubmit(content) ==
    /\ ui.screen = "session_main"
    /\ journalOp.pc = "idle"
    /\ clock < MaxEntries
    /\ sessionMasterKey(sessionStorage) # NullKey
    /\ \E iv \in Nonces :
          LET sealed == encryptData(content, sessionMasterKey(sessionStorage), iv)
          IN  journalOp' = [IdleJournalOp EXCEPT !.pc = "session_save",
                               !.content = uint8ArrayToBase64(sealed.data),
                               !.title = uint8ArrayToBase64(sealed.iv)]
    /\ hist' = [hist EXCEPT !.lastEvent = "step"]
    /\ UNCHANGED <<profiles, currentAuth, ui, authOps, entries, allJournalEntries, clock, singleVars>>

\* the sealed content is put into the entry store
SessionSaveStored ==
    /\ journalOp.pc = "session_save"
    /\ clock' = clock + 1
    /\ entries' = addJournalEntry(entries,
                     [id |-> clock', content |-> journalOp.content, iv |-> journalOp.title])
    /\ journalOp' = IdleJournalOp
    /\ hist' = [hist EXCEPT !.lastEvent = "step"]
    /\ UNCHANGED <<profiles, currentAuth, ui, authOps, allJournalEntries, singleVars>>

\* changePassword(username, oldPassword, newPassword): validation, then
\* getUserProfile is issued
ChangePasswordSubmit(oldPassword, newPassword) ==
    /\ ui.screen = "session_main"
    /\ mainOp.pc = "idle"
    /\ IF oldPassword = "" \/ newPassword = "" \/ oldPassword = newPassword
       THEN UNCHANGED mainOp
       ELSE mainOp' = [IdleMainOp EXCEPT !.pc = "change_profile", !.fn = "change",
                          !.username = getCurrentUsername(sessionStorage),
                          !.password = oldPassword, !.newPassword = newPassword,
                          !.profile = getUserProfile(profiles,
                                                     getCurrentUsername(sessionStorage)),
                          !.before = [profiles |-> profiles, entries |-> entries]]
    /\ hist' = [hist EXCEPT !.lastEvent = "step"]
    /\ UNCHANGED <<profiles, currentAuth, ui, authOps, journalVars, exported, sessionStorage, cryptoCall>>

\* the old password is verified against the stored hash; then the profile is
\* saved with the hash of the new password
ChangePasswordVerified ==
    /\ mainOp.pc = "change_profile"
    /\ LET salt == stringToUint8Array(mainOp.username)
           oldInputHashedPassword == deriveKeyFor(mainOp.password, salt, "hash")
           newHashedPassword == deriveKeyFor(mainOp.newPassword, salt, "hash")
       IN  IF /\ mainOp.profile # NoProfile
              /\ compareHashes(oldInputHashedPassword,
                               base64ToUint8Array(mainOp.profile.hashedPassword))
           THEN /\ profiles' = saveUserProfile(profiles,
                      [mainOp.profile EXCEPT
                          !.hashedPassword = uint8ArrayToBase64(newHashedPassword)])
                /\ mainOp' = [mainOp EXCEPT !.pc = "change_saved"]
           ELSE /\ mainOp' = IdleMainOp
                /\ UNCHANGED profiles
    /\ hist' = [hist EXCEPT !.lastEvent = "step"]
    /\ UNCHANGED <<currentAuth, ui, authOps, journalVars, exported, sessionStorage, cryptoCall>>

\* the profile is saved: both master keys are derived and getEntriesRaw is issued
ChangePasswordSaved ==
    /\ mainOp.pc = "change_saved"
    /\ LET salt == stringToUint8Array(mainOp.username)
       IN  mainOp' = [mainOp EXCEPT !.pc = "change_entries",
                         !.key = deriveKeyFor(mainOp.password, salt, "encryption"),
                         !.newKey = deriveKeyFor(mainOp.newPassword, salt, "encryption"),
                         !.todo = getAllJournalEntries(entries)]
    /\ hist' = [hist EXCEPT !.lastEvent = "step"]
    /\ UNCHANGED <<profiles, currentAuth, ui, authOps, journalVars, exported, sessionStorage, cryptoCall>>

\* one turn of the loop: the entry is opened under the old master key, sealed
\* under the new one and saved; an entry that does not open ends the call
ChangePasswordReencrypt ==
    /\ mainOp.pc = "change_entries"
    /\ mainOp.todo # << >>
    /\ LET entry == Head(mainOp.todo)
           decryptedContent == decryptData(base64ToUint8Array(entry.content), mainOp.key,
                                           base64ToUint8Array(entry.iv))
       IN  IF decryptedContent.ok
           THEN /\ \E iv \in Nonces :
                      LET encryptedContent == encryptData(decryptedContent.data,
                                                          mainOp.newKey, iv)
                      IN  entries' = addJournalEntry(entries,
                             [entry EXCEPT
                                !.content = uint8ArrayToBase64(encryptedContent.data),
                                !.iv = uint8ArrayToBase64(encryptedContent.iv)])
                /\ mainOp' = [mainOp EXCEPT !.todo = Tail(mainOp.todo)]
           ELSE /\ mainOp' = IdleMainOp
                /\ UNCHANGED entries
    /\ hist' = [hist EXCEPT !.lastEvent = "step"]
    /\ UNCHANGED <<profiles, currentAuth, ui, authOps, journalOp, allJournalEntries, clock, exported, sessionStorage, cryptoCall>>

\* one turn of the loop in which db.saveEntryRaw rejects: the catch rethrows
\* 'Password change failed'
ChangePasswordWriteFails ==
    /\ mainOp.pc = "change_entries"
    /\ mainOp.todo # << >>
    /\ decryptData(base64ToUint8Array(Head(mainOp.todo).content), mainOp.key,
                   base64ToUint8Array(Head(mainOp.todo).iv)).ok
    /\ mainOp' = IdleMainOp
    /\ hist' = [hist EXCEPT !.lastEvent = "step"]
    /\ UNCHANGED <<profiles, currentAuth, ui, authOps, journalVars, exported, sessionStorage, cryptoCall>>

\* the loop is over: the new master key is written to sessionStorage
ChangePasswordDone ==
    /\ mainOp.pc = "change_entries"
    /\ mainOp.todo = << >>
    /\ sessionStorage' = setItem(sessionStorage, "webx_journal_master_key",
                                 uint8ArrayToBase64(mainOp.newKey))
    /\ mainOp' = IdleMainOp
    /\ hist' = [hist EXCEPT !.lastEvent = "change_password"]
    /\ UNCHANGED <<profiles, currentAuth, ui, authOps, journalVars, exported, cryptoCall>>

\* the page of this variant after DOMContentLoaded with nothing in sessionStorage
InitSession ==
    /\ profiles = [u \in {} |-> NoProfile]
    /\ currentAuth = [username |-> NullUser, encryptionKey |-> NullKey]
    /\ ui = [timeLeft |-> SESSION_DURATION_SECONDS, warningShown |-> FALSE,
             popupHidden |-> TRUE, sessionTimerInterval |-> FALSE,
             sessionTimeoutId |-> NoTimeout, listeners |-> FALSE,
             screen |-> "session_login",
             journalList |-> << >>]
    /\ authOps = [i \in Slots |-> IdleOp]
    /\ entries = [id \in {} |-> NoEntry]
    /\ journalOp = IdleJournalOp
    /\ allJournalEntries = << >>
    /\ clock = 0
    /\ hist = FreshHist
    /\ mainOp = IdleMainOp
    /\ exported = NoBundle
    /\ sessionStorage = NoItems
    /\ cryptoCall = NoCryptoCall

NextSession ==
    \/ \E u \in Usernames, p \in Passwords : SessionRegisterSubmit(u, p)
    \/ SessionRegisterHashed
    \/ SessionRegisterGotProfile
    \/ SessionRegisterSaved
    \/ \E u \in Usernames, p \in Passwords : SessionLoginSubmit(u, p)
    \/ SessionLoginGotProfile
    \/ SessionLoginHashed
    \/ SessionLoginKeyDerived
    \/ SessionLogout
    \/ \E c \in Contents : SessionSaveSubmit(c)
    \/ SessionSaveStored
    \/ \E old \in Passwords, new \in Passwords : ChangePasswordSubmit(old, new)
    \/ ChangePasswordVerified
    \/ ChangePasswordSaved
    \/ ChangePasswordReencrypt
    \/ ChangePasswordWriteFails
    \/ ChangePasswordDone

SpecSession == InitSession /\ [][NextSession]_vars

\* ------------------------------------------------------- application start
\* getAuthStatus of the auth.js that imports the storage functions by name: the
\* read of storage.getAllProfileKeys throws inside the try and the catch answers
getAuthStatusCaught(store) == [isRegistered |-> FALSE]

\* a profile as registerUser of the build with data version v stored it
storedProfile(username, password, version) ==
    [username |-> username,
     kdfSalt |-> 1,
     encryptedIdentity |-> encrypt([username |-> username, version |-> version],
                                   deriveKeyFromPassword(password, 1), 1),
     version |-> version]

\* the profile stores the application can find when it starts: none, one written
\* by this build, one written by a build with the next data version
StartStores ==
    {[u \in {} |-> NoProfile]}
    \cup {[u \in {"alice"} |-> storedProfile("alice", "CorrectHorse1", v)] :
             v \in {CURRENT_DATA_VERSION, CURRENT_DATA_VERSION + 1}}

InitStart ==
    /\ profiles \in StartStores
    /\ currentAuth = [username |-> NullUser, encryptionKey |-> NullKey]
    /\ ui = [timeLeft |-> SESSION_DURATION_SECONDS, warningShown |-> FALSE,
             popupHidden |-> TRUE, sessionTimerInterval |-> FALSE,
             sessionTimeoutId |-> NoTimeout, listeners |-> FALSE,
             screen |-> "loading",
             journalList |-> << >>]
    /\ authOps = [i \in Slots |-> IdleOp]
    /\ entries = [id \in {} |-> NoEntry]
    /\ journalOp = IdleJournalOp
    /\ allJournalEntries = << >>
    /\ clock = 0
    /\ hist = FreshHist
    /\ mainOp = IdleMainOp
    /\ exported = NoBundle
    /\ sessionStorage = NoItems
    /\ cryptoCall = NoCryptoCall

\* initializeApp: the login form for a registered user, else the register form;
\* the answer is that of either auth.js
InitializeApp ==
    /\ ui.screen = "loading"
    /\ \E isRegistered \in {getAuthStatus(currentAuth, profiles).value.isRegistered,
                            getAuthStatusCaught(profiles).isRegistered} :
          ui' = IF isRegistered THEN renderLoginForm(ui)
                ELSE [ui EXCEPT !.screen = "register"]
    /\ hist' = [hist EXCEPT !.lastEvent = "start"]
    /\ UNCHANGED <<profiles, currentAuth, authOps, journalVars, singleVars>>

NextStart ==
    \/ InitializeApp
    \/ \E u \in Usernames, p \in Passwords : RegisterSubmit(1, u, p)
    \/ RegisterGotProfile(1)
    \/ RegisterDerived(1)
    \/ RegisterEncrypted(1)
    \/ RegisterSaved(1)
    \/ \E u \in Usernames, p \in Passwords : LoginSubmit(1, u, p)
    \/ LoginGotProfile(1)
    \/ LoginDerived(1)
    \/ LoginDecrypted(1)
    \/ ShowLoginForm
    \/ ShowRegisterForm
    \/ LogoutClick

SpecStart == InitStart /\ [][NextStart]_vars

\* main.init of the single-user variant: auth.init never logs in, renderAuthForms
InitSingle ==
    /\ profiles = [u \in {} |-> NoProfile]
    /\ currentAuth = [username |-> NullUser, encryptionKey |-> NullKey]
    /\ ui = [timeLeft |-> SESSION_DURATION_SECONDS, warningShown |-> FALSE,
             popupHidden |-> TRUE, sessionTimerInterval |-> FALSE,
             sessionTimeoutId |-> NoTimeout, listeners |-> FALSE,
             screen |-> "auth",
             journalList |-> << >>]
    /\ authOps = [i \in Slots |-> IdleOp]
    /\ entries = [id \in {} |-> NoEntry]
    /\ journalOp = IdleJournalOp
    /\ allJournalEntries = << >>
    /\ clock = 0
    /\ hist = FreshHist
    /\ mainOp = IdleMainOp
    /\ exported = NoBundle
    /\ sessionStorage = NoItems
    /\ cryptoCall = NoCryptoCall

\* the master passwords typed into the forms and prompts of main.js
SinglePasswords == {"CorrectHorse1", "WrongPassword"}

\* main.js with the single-user auth.js: one export file, one form or button handler of the
\* auth and data kind at a time, next to one journal handler
NextSingle ==
    \/ \E p \in SinglePasswords, c \in SinglePasswords : SingleRegisterSubmit(p, c)
    \/ SingleRegisterGotProfile
    \/ SingleRegisterDerived
    \/ SingleRegisterEncrypted
    \/ SingleRegisterSaved
    \/ \E p \in SinglePasswords : SingleLoginSubmit(p)
    \/ SingleLoginGotProfile
    \/ SingleLoginDerived
    \/ SingleLoginDecrypted
    \/ HandleLogout
    \/ \E t \in Titles, c \in Contents : SaveSubmit(t, c)
    \/ SaveTitleEncrypted
    \/ SaveContentEncrypted
    \/ SaveStored
    \/ LoadGotEntries
    \/ LoadDecrypted
    \/ \E p \in SinglePasswords : ExportSubmit(p)
    \/ ExportLoggedIn
    \/ ExportGotProfile
    \/ ExportGotEntries
    \/ \E p \in SinglePasswords : ImportSubmit(exported, p)
    \/ ImportCleared
    \/ ImportLoggedIn
    \/ ImportFailed
    \/ ImportAddEntry
    \/ ImportDone

SpecSingle == InitSingle /\ [][NextSingle]_vars

\* registration and login of both variants of auth.js, one call at a time: a run
\* starts as one variant and stays it
NextRegistration ==
    \/ \E u \in Usernames, p \in Passwords : RegisterSubmit(1, u, p)
    \/ RegisterGotProfile(1)
    \/ RegisterDerived(1)
    \/ RegisterEncrypted(1)
    \/ RegisterSaved(1)
    \/ \E u \in Usernames, p \in Passwords : LoginSubmit(1, u, p)
    \/ LoginGotProfile(1)
    \/ LoginDerived(1)
    \/ LoginDecrypted(1)
    \/ ShowLoginForm
    \/ ShowRegisterForm
    \/ LogoutClick
    \/ \E p \in Passwords, c \in Passwords : SingleRegisterSubmit(p, c)
    \/ SingleRegisterGotProfile
    \/ SingleRegisterDerived
    \/ SingleRegisterEncrypted
    \/ SingleRegisterSaved
    \/ \E p \in Passwords : SingleLoginSubmit(p)
    \/ SingleLoginGotProfile
    \/ SingleLoginDerived
    \/ SingleLoginDecrypted
    \/ LoadGotEntries
    \/ LoadDecrypted
    \/ HandleLogout

SpecRegistration == (Init \/ InitSingle) /\ [][NextRegistration]_vars

\* ------------------------------------------------- auth.js: deleteAccount
\* storage: store.delete(username)
deleteUserProfile(store, username) == [u \in DOMAIN store \ {username} |-> store[u]]

\* storage: clearAllData, one transaction that clears both object stores
clearAllData(profileStore, entryStore) ==
    [profiles |-> [u \in {} |-> profileStore[u]],
     entries |-> [id \in {} |-> entryStore[id]]]

\* auth.js: getCurrentUsername
currentUsername(auth) == auth.username

\* the two deleteAccount bodies: the one that asks for 'DELETE' before it
\* deletes, and the one that deletes as soon as the password is verified
DeleteBodies == {"delete_prompted", "delete"}

\* what deleteAccount concludes once decrypt has settled
deleteVerdict(op) ==
    LET opened == decrypt(op.profile.encryptedIdentity.ciphertext,
                          op.profile.encryptedIdentity.iv,
                          op.profile.encryptedIdentity.authTag, op.key)
    IN  IF ~opened.ok THEN "incorrect_password"
        ELSE IF op.fn = "delete_prompted" /\ opened.data.username # op.username
             THEN "identity_mismatch"
        ELSE "verified"

\* click on #delete-account-button: the username of the session, the prompt for
\* the master password, then deleteAccount issues getUserProfile
DeleteSubmit(body, masterPassword) ==
    /\ ui.screen = "main"
    /\ mainOp.pc = "idle"
    /\ LET username == currentUsername(currentAuth)
       IN  IF username = NullUser \/ masterPassword = ""
           THEN UNCHANGED mainOp
           ELSE mainOp' = [IdleMainOp EXCEPT !.pc = "delete_getProfile", !.fn = body,
                              !.username = username, !.password = masterPassword,
                              !.ok = (username \in DOMAIN profiles),
                              !.profile = IF username \in DOMAIN profiles
                                          THEN profiles[username]
                                          ELSE storedProfile(NullUser, "", 0)]
    /\ hist' = [hist EXCEPT !.lastEvent = "step"]
    /\ UNCHANGED <<profiles, currentAuth, ui, authOps, journalVars, exported, sessionStorage, cryptoCall>>

\* getUserProfile resolved: no profile returns false, else the key is derived
\* from the typed password and the stored salt
DeleteGotProfile ==
    /\ mainOp.pc = "delete_getProfile"
    /\ mainOp' = IF mainOp.ok THEN [mainOp EXCEPT !.pc = "delete_derive"] ELSE IdleMainOp
    /\ hist' = [hist EXCEPT !.lastEvent = "step"]
    /\ UNCHANGED <<profiles, currentAuth, ui, authOps, journalVars, exported, sessionStorage, cryptoCall>>

\* deriveKeyFromPassword resolved: decrypt of the stored identity is issued
DeleteDerived ==
    /\ mainOp.pc = "delete_derive"
    /\ mainOp' = [mainOp EXCEPT !.pc = "delete_decrypt",
                     !.key = deriveKeyFromPassword(mainOp.password, mainOp.profile.kdfSalt)]
    /\ hist' = [hist EXCEPT !.lastEvent = "step"]
    /\ UNCHANGED <<profiles, currentAuth, ui, authOps, journalVars, exported, sessionStorage, cryptoCall>>

\* variant: a deletion that goes on whatever decrypt answered
DeleteDecryptedUnverified ==
    /\ mainOp.pc = "delete_decrypt"
    /\ LET cleared == clearAllData(profiles, entries)
       IN  /\ profiles' = cleared.profiles
           /\ entries' = cleared.entries
           /\ mainOp' = [mainOp EXCEPT !.pc = "delete_cleared"]
    /\ hist' = [hist EXCEPT !.lastEvent = "step"]
    /\ UNCHANGED <<currentAuth, ui, authOps, journalOp, allJournalEntries, clock, exported, sessionStorage, cryptoCall>>

\* decrypt settled: a wrong password or a foreign payload returns false; the
\* prompting body asks for 'DELETE' and then issues deleteUserProfile, the other
\* body issues clearAllData at once
DeleteDecrypted ==
    /\ mainOp.pc = "delete_decrypt"
    /\ IF deleteVerdict(mainOp) # "verified"
       THEN /\ mainOp' = IdleMainOp
            /\ hist' = [hist EXCEPT !.lastEvent = "delete_refused"]
            /\ UNCHANGED <<profiles, entries>>
       ELSE IF mainOp.fn = "delete_prompted"
       THEN \E confirmation \in {"DELETE", ""} :
               IF confirmation # "DELETE"
               THEN /\ mainOp' = IdleMainOp
                    /\ hist' = [hist EXCEPT !.lastEvent = "delete_cancelled"]
                    /\ UNCHANGED <<profiles, entries>>
               ELSE /\ profiles' = deleteUserProfile(profiles, mainOp.username)
                    /\ mainOp' = [mainOp EXCEPT !.pc = "delete_profile",
                                                !.confirmation = confirmation]
                    /\ hist' = [hist EXCEPT !.lastEvent = "step"]
                    /\ UNCHANGED entries
       ELSE LET cleared == clearAllData(profiles, entries)
            IN  /\ profiles' = cleared.profiles
                /\ entries' = cleared.entries
                /\ mainOp' = [mainOp EXCEPT !.pc = "delete_cleared"]
                /\ hist' = [hist EXCEPT !.lastEvent = "step"]
    /\ UNCHANGED <<currentAuth, ui, authOps, journalOp, allJournalEntries, clock, exported, sessionStorage, cryptoCall>>

\* deleteUserProfile resolved: clearAllData is issued
DeleteProfileDeleted ==
    /\ mainOp.pc = "delete_profile"
    /\ LET cleared == clearAllData(profiles, entries)
       IN  /\ profiles' = cleared.profiles
           /\ entries' = cleared.entries
    /\ mainOp' = [mainOp EXCEPT !.pc = "delete_cleared"]
    /\ hist' = [hist EXCEPT !.lastEvent = "step"]
    /\ UNCHANGED <<currentAuth, ui, authOps, journalOp, allJournalEntries, clock, exported, sessionStorage, cryptoCall>>

\* clearAllData resolved: logoutUser; the prompting body empties the container
\* and fails on the getAuthStatus it imports from main.js, the other body
\* renders the login form
DeleteCleared ==
    /\ mainOp.pc = "delete_cleared"
    /\ currentAuth' = logoutUser(currentAuth)
    /\ ui' = IF mainOp.fn = "delete_prompted"
             THEN [ui EXCEPT !.screen = "empty"]
             ELSE renderLoginForm(ui)
    /\ authOps' = [i \in Slots |->
           IF authOps[i].pc = "derive"
           THEN [authOps[i] EXCEPT !.logoutDuringDerive = TRUE] ELSE authOps[i]]
    /\ journalOp' = [journalOp EXCEPT !.logoutAt =
           IF journalOp.logoutAt = "" THEN journalOp.pc ELSE journalOp.logoutAt]
    /\ mainOp' = IdleMainOp
    /\ hist' = [hist EXCEPT !.lastEvent = "delete_account"]
    /\ UNCHANGED <<profiles, entries, allJournalEntries, clock, exported, sessionStorage, cryptoCall>>

\* the registered users and the passwords typed in the account handlers
DeleteUsers == {"alice", "bobby"}
DeletePasswords == {"CorrectHorse1", "WrongPassword"}

\* the profile stores the page can start on: alice alone, alice and bobby
DeleteStores ==
    {[u \in {"alice"} |-> storedProfile("alice", "CorrectHorse1", CURRENT_DATA_VERSION)],
     [u \in DeleteUsers |->
         storedProfile(u, IF u = "alice" THEN "CorrectHorse1" ELSE "WrongPassword",
                       CURRENT_DATA_VERSION)]}

\* initializeApp has found a registered user and rendered the login form
InitDelete ==
    /\ profiles \in DeleteStores
    /\ currentAuth = [username |-> NullUser, encryptionKey |-> NullKey]
    /\ ui = [timeLeft |-> SESSION_DURATION_SECONDS, warningShown |-> FALSE,
             popupHidden |-> TRUE, sessionTimerInterval |-> FALSE,
             sessionTimeoutId |-> NoTimeout, listeners |-> FALSE,
             screen |-> "login",
             journalList |-> << >>]
    /\ authOps = [i \in Slots |-> IdleOp]
    /\ entries = [id \in {} |-> NoEntry]
    /\ journalOp = IdleJournalOp
    /\ allJournalEntries = << >>
    /\ clock = 0
    /\ hist = FreshHist
    /\ mainOp = IdleMainOp
    /\ exported = NoBundle
    /\ sessionStorage = NoItems
    /\ cryptoCall = NoCryptoCall

\* login, the journal handlers, logout and deleteAccount; no time passes
NextDelete ==
    \/ \E u \in DeleteUsers, p \in DeletePasswords : LoginSubmit(1, u, p)
    \/ LoginGotProfile(1)
    \/ LoginDerived(1)
    \/ LoginDecrypted(1)
    \/ LogoutClick
    \/ \E t \in Titles, c \in Contents : SaveSubmit(t, c)
    \/ SaveTitleEncrypted
    \/ SaveContentEncrypted
    \/ SaveStored
    \/ LoadGotEntries
    \/ LoadDecrypted
    \/ \E b \in DeleteBodies, p \in DeletePasswords \cup {""} : DeleteSubmit(b, p)
    \/ DeleteGotProfile
    \/ DeleteDerived
    \/ DeleteDecrypted
    \/ DeleteProfileDeleted
    \/ DeleteCleared

SpecDelete == InitDelete /\ [][NextDelete]_vars

\* ----------------------------------------- main.js: the files handed to import
\* a backup file: the profile of the identity (password, salt) and one entry per
\* id, sealed under entryKey, as JSON.stringify wrote them
BackupFile(password, salt, entryKey, ids) ==
    JSONstringify(
        [userProfile |->
            singleUserProfile(salt, encrypt("identity_check",
                                            deriveKey(password, <<salt>>), 1)),
         journalEntries |->
            [k \in 1..Len(ids) |->
                [id |-> ids[k], timestamp |-> ids[k],
                 title |-> encrypt("Monday", entryKey, 1),
                 content |-> encrypt("dear diary", entryKey, 1)]]])

\* the files the user can choose: the identity's own backup, a backup whose
\* entry was sealed under another key, a backup that holds one id twice
ImportFiles ==
    {BackupFile("CorrectHorse1", 1, deriveKey("CorrectHorse1", <<1>>), <<1>>),
     BackupFile("CorrectHorse1", 1, deriveKey("WrongPassword", <<2>>), <<1>>),
     BackupFile("CorrectHorse1", 1, deriveKey("CorrectHorse1", <<1>>), <<2, 2>>)}

\* main.init on a browser that holds a registered identity: the forms are shown
InitImport ==
    /\ profiles = [u \in {FIXED_USERNAME} |->
                      singleUserProfile(1, encrypt("identity_check",
                                                   deriveKey("CorrectHorse1", <<1>>), 1))]
    /\ currentAuth = [username |-> NullUser, encryptionKey |-> NullKey]
    /\ ui = [timeLeft |-> SESSION_DURATION_SECONDS, warningShown |-> FALSE,
             popupHidden |-> TRUE, sessionTimerInterval |-> FALSE,
             sessionTimeoutId |-> NoTimeout, listeners |-> FALSE,
             screen |-> "auth",
             journalList |-> << >>]
    /\ authOps = [i \in Slots |-> IdleOp]
    /\ entries = [id \in {} |-> NoEntry]
    /\ journalOp = IdleJournalOp
    /\ allJournalEntries = << >>
    /\ clock = 0
    /\ hist = FreshHist
    /\ mainOp = IdleMainOp
    /\ exported = NoBundle
    /\ sessionStorage = NoItems
    /\ cryptoCall = NoCryptoCall

\* login, the journal handlers, logout and import of a chosen file
NextImport ==
    \/ \E p \in SinglePasswords : SingleLoginSubmit(p)
    \/ SingleLoginGotProfile
    \/ SingleLoginDerived
    \/ SingleLoginDecrypted
    \/ HandleLogout
    \/ \E t \in Titles, c \in Contents : SaveSubmit(t, c)
    \/ SaveTitleEncrypted
    \/ SaveContentEncrypted
    \/ SaveStored
    \/ LoadGotEntries
    \/ LoadDecrypted
    \/ \E f \in ImportFiles, p \in SinglePasswords : ImportSubmit(f, p)
    \/ ImportCleared
    \/ ImportLoggedIn
    \/ ImportFailed
    \/ ImportAddEntry
    \/ ImportDone

SpecImport == InitImport /\ [][NextImport]_vars

\* --------------------------------------- crypto.js, down to the bytes
MaxText == 2
MaxCalls == 2
TAG_LENGTH == 16

\* UTF-16 code units of a JavaScript string: 'a', e acute, the two halves of
\* U+1F600
Smiley == <<55357, 56832>>
CodeUnits == {97, 233, Smiley[1], Smiley[2]}
isHigh(u) == u >= 55296 /\ u <= 56319
isLow(u) == u >= 56320 /\ u <= 57343

\* the strings handed to encrypt: every sequence of at most MaxText code units
Texts == UNION {[1..n -> CodeUnits] : n \in 0..MaxText}

\* the keys deriveKeyFromPassword can hand to encrypt and decrypt
CryptoKeys == {deriveKeyFromPassword(pw, 1) : pw \in {"CorrectHorse1", "WrongPassword"}}

\* window.crypto.getRandomValues(new Uint8Array(12)): a 96-bit value, taken here
\* as one the generator has not returned before
IvSpace == 1..(MaxCalls + 1)

\* variant: a generator that may return a value again
getRandomValuesAgain(drawn) == IvSpace

getRandomValues(drawn) == IvSpace \ drawn

\* strToUint8: new TextEncoder().encode(str), UTF-8 with U+FFFD for a surrogate
\* that has no partner
RECURSIVE strToUint8(_)
strToUint8(str) ==
    IF str = << >> THEN << >>
    ELSE LET u == Head(str)
         IN  IF u < 128 THEN <<u>> \o strToUint8(Tail(str))
             ELSE IF u < 2048
             THEN <<192 + (u \div 64), 128 + (u % 64)>> \o strToUint8(Tail(str))
             ELSE IF isHigh(u) /\ Len(str) >= 2 /\ isLow(str[2])
             THEN LET cp == 65536 + (u - 55296) * 1024 + (str[2] - 56320)
                  IN  <<240 + (cp \div 262144), 128 + ((cp \div 4096) % 64),
                        128 + ((cp \div 64) % 64), 128 + (cp % 64)>>
                      \o strToUint8(Tail(Tail(str)))
             ELSE IF isHigh(u) \/ isLow(u)
             THEN <<239, 191, 189>> \o strToUint8(Tail(str))
             ELSE <<224 + (u \div 4096), 128 + ((u \div 64) % 64), 128 + (u % 64)>>
                  \o strToUint8(Tail(str))

\* new TextDecoder().decode(bytes): UTF-8 to code units, U+FFFD for a byte that
\* starts no sequence
RECURSIVE TextDecoderDecode(_)
TextDecoderDecode(bytes) ==
    IF bytes = << >> THEN << >>
    ELSE LET b == Head(bytes)
         IN  IF b < 128 THEN <<b>> \o TextDecoderDecode(Tail(bytes))
             ELSE IF b >= 192 /\ b <= 223 /\ Len(bytes) >= 2
             THEN <<(b - 192) * 64 + (bytes[2] - 128)>>
                  \o TextDecoderDecode(SubSeq(bytes, 3, Len(bytes)))
             ELSE IF b >= 224 /\ b <= 239 /\ Len(bytes) >= 3
             THEN <<(b - 224) * 4096 + (bytes[2] - 128) * 64 + (bytes[3] - 128)>>
                  \o TextDecoderDecode(SubSeq(bytes, 4, Len(bytes)))
             ELSE IF b >= 240 /\ b <= 247 /\ Len(bytes) >= 4
             THEN LET cp == (b - 240) * 262144 + (bytes[2] - 128) * 4096
                              + (bytes[3] - 128) * 64 + (bytes[4] - 128)
                  IN  <<55296 + ((cp - 65536) \div 1024), 56320 + ((cp - 65536) % 1024)>>
                      \o TextDecoderDecode(SubSeq(bytes, 5, Len(bytes)))
             ELSE <<65533>> \o TextDecoderDecode(Tail(bytes))

\* uint8ToBase64 and base64ToUint8: btoa over the bytes, atob back
uint8ToBase64(bytes) == <<"base64", bytes>>
base64ToUint8(base64) == IF Len(base64) = 2 /\ base64[1] = "base64" THEN base64[2] ELSE << >>

\* crypto.subtle.encrypt with AES-GCM: one cipher byte per data byte, then the
\* 16 bytes of the tag, every byte bound to data, key and iv
subtleEncrypt(iv, key, encodedData) ==
    [k \in 1..Len(encodedData) |-> <<"c", k, <<encodedData[k]>>, key, iv>>]
    \o [j \in 1..TAG_LENGTH |-> <<"t", j, encodedData, key, iv>>]

\* crypto.subtle.decrypt with AES-GCM: the last 16 bytes are the tag; throws an
\* OperationError unless every byte was made under key and iv
subtleDecrypt(iv, key, encryptedDataWithTag) ==
    LET n == Len(encryptedDataWithTag) - TAG_LENGTH
        data == [k \in 1..n |-> encryptedDataWithTag[k][3][1]]
    IN  IF n >= 0 /\ encryptedDataWithTag = subtleEncrypt(iv, key, data)
        THEN [ok |-> TRUE, data |-> data]
        ELSE [ok |-> FALSE, data |-> << >>]

\* variant: an encrypt that cuts the tag off one byte early
encryptBase64ShortTag(data, key, iv) ==
    LET ciphertextWithTag == subtleEncrypt(iv, key, strToUint8(data))
        cut == Len(ciphertextWithTag) - (TAG_LENGTH - 1)
    IN  [iv |-> uint8ToBase64(<<iv>>),
         ciphertext |-> uint8ToBase64(SubSeq(ciphertextWithTag, 1, cut - 1)),
         authTag |-> uint8ToBase64(SubSeq(ciphertextWithTag, cut + 1, Len(ciphertextWithTag)))]

\* encrypt(data, key) with the iv it drew: the cipher output is split into the
\* ciphertext and the last 16 bytes, all three fields go out as base64
encryptBase64(data, key, iv) ==
    LET ciphertextWithTag == subtleEncrypt(iv, key, strToUint8(data))
        cut == Len(ciphertextWithTag) - TAG_LENGTH
    IN  [iv |-> uint8ToBase64(<<iv>>),
         ciphertext |-> uint8ToBase64(SubSeq(ciphertextWithTag, 1, cut)),
         authTag |-> uint8ToBase64(SubSeq(ciphertextWithTag, cut + 1, Len(ciphertextWithTag)))]

\* the bytes decrypt hands to crypto.subtle.decrypt: ciphertext, then tag
encryptedDataWithTagOf(ciphertextBase64, authTagBase64) ==
    base64ToUint8(ciphertextBase64) \o base64ToUint8(authTagBase64)

\* decrypt(ciphertextBase64, ivBase64, authTagBase64, key)
decryptBase64(ciphertextBase64, ivBase64, authTagBase64, key) ==
    LET iv == base64ToUint8(ivBase64)
        opened == subtleDecrypt(IF iv = << >> THEN 0 ELSE iv[1], key,
                                encryptedDataWithTagOf(ciphertextBase64, authTagBase64))
    IN  IF opened.ok
        THEN [ok |-> TRUE, data |-> TextDecoderDecode(opened.data)]
        ELSE [ok |-> FALSE, data |-> << >>]

\* a caller holds a key and a text
InitCrypto ==
    /\ profiles = [u \in {} |-> IdleOp]
    /\ currentAuth = [username |-> NullUser, encryptionKey |-> NullKey]
    /\ ui = [timeLeft |-> SESSION_DURATION_SECONDS, warningShown |-> FALSE,
             popupHidden |-> TRUE, sessionTimerInterval |-> FALSE,
             sessionTimeoutId |-> NoTimeout, listeners |-> FALSE,
             screen |-> "register",
             journalList |-> << >>]
    /\ authOps = [i \in Slots |-> IdleOp]
    /\ entries = [id \in {} |-> NoEntry]
    /\ journalOp = IdleJournalOp
    /\ allJournalEntries = << >>
    /\ clock = 0
    /\ hist = FreshHist
    /\ mainOp = IdleMainOp
    /\ exported = NoBundle
    /\ sessionStorage = NoItems
    /\ \E data \in Texts, key \in CryptoKeys :
          cryptoCall = [NoCryptoCall EXCEPT !.data = data, !.key = key]

\* the caller takes another text for the next call
CryptoType(data) ==
    /\ data # cryptoCall.data
    /\ Len(cryptoCall.sealed) < MaxCalls
    /\ cryptoCall.opened = NoCryptoCall.opened
    /\ cryptoCall' = [cryptoCall EXCEPT !.data = data]
    /\ hist' = [hist EXCEPT !.lastEvent = "step"]
    /\ UNCHANGED <<profiles, currentAuth, ui, authOps, journalVars, mainOp, exported, sessionStorage>>

\* encrypt(data, key): an iv is drawn and the envelope is returned
CryptoEncrypt ==
    /\ Len(cryptoCall.sealed) < MaxCalls
    /\ \E iv \in getRandomValues(cryptoCall.drawn) :
          cryptoCall' = [cryptoCall EXCEPT
              !.drawn = cryptoCall.drawn \cup {iv},
              !.opened = NoCryptoCall.opened,
              !.sealed = Append(cryptoCall.sealed,
                                [plain |-> cryptoCall.data,
                                 envelope |-> encryptBase64(cryptoCall.data,
                                                            cryptoCall.key, iv)])]
    /\ hist' = [hist EXCEPT !.lastEvent = "encrypt"]
    /\ UNCHANGED <<profiles, currentAuth, ui, authOps, journalVars, mainOp, exported, sessionStorage>>

\* decrypt of the envelope sealed last, under one of the keys
CryptoDecrypt(key) ==
    /\ cryptoCall.sealed # << >>
    /\ LET last == cryptoCall.sealed[Len(cryptoCall.sealed)].envelope
       IN  cryptoCall' = [cryptoCall EXCEPT !.opened =
              decryptBase64(last.ciphertext, last.iv, last.authTag, key)]
    /\ hist' = [hist EXCEPT !.lastEvent = IF key = cryptoCall.key THEN "decrypt"
                                         ELSE "decrypt_other_key"]
    /\ UNCHANGED <<profiles, currentAuth, ui, authOps, journalVars, mainOp, exported, sessionStorage>>

NextCrypto ==
    \/ \E data \in Texts : CryptoType(data)
    \/ CryptoEncrypt
    \/ \E key \in CryptoKeys : CryptoDecrypt(key)

SpecCrypto == InitCrypto /\ [][NextCrypto]_vars

\* the session timer next to deleteAccount: one registered user, login, logout,
\* account deletion and the passing seconds
InitDeleteTimer ==
    /\ InitDelete
    /\ DOMAIN profiles = {"alice"}

NextDeleteTimer ==
    \/ \E p \in DeletePasswords : LoginSubmit(1, "alice", p)
    \/ LoginGotProfile(1)
    \/ LoginDerived(1)
    \/ LoginDecrypted(1)
    \/ LogoutClick
    \/ \E b \in DeleteBodies, p \in DeletePasswords : DeleteSubmit(b, p)
    \/ DeleteGotProfile
    \/ DeleteDerived
    \/ DeleteDecrypted
    \/ DeleteProfileDeleted
    \/ DeleteCleared
    \/ Tick
    \/ IdleSecond
    \/ TimeoutFire
    \/ Activity
    \/ DismissWarning

SpecDeleteTimer == InitDeleteTimer /\ [][NextDeleteTimer]_vars

\* ------------------------------- registerUser and loginUser: the ways to fail
\* renderMainJournalApp up to the throw: the container holds the journal page and
\* the logout button has its listener; the read of window.WebXJournal, which only
\* one of the entry scripts defines, throws before startSessionTimer is reached
renderMainJournalAppThrows(u) == [u EXCEPT !.screen = "main"]

\* saveUserProfile rejected: the catch reports the failure
RegisterEncryptedStorageError(i) ==
    /\ authOps[i].pc = "encrypt"
    /\ authOps[i].fn = "register"
    /\ authOps' = [authOps EXCEPT ![i] = IdleOp]
    /\ hist' = [hist EXCEPT !.lastEvent = "register_failed"]
    /\ UNCHANGED <<profiles, currentAuth, ui, journalVars, singleVars>>

\* saveUserProfile resolved, the session is installed, renderMainJournalApp
\* throws: the catch shows 'Registration failed' and registerUser returns false
RegisterSavedRenderThrows(i) ==
    /\ authOps[i].pc = "save"
    /\ authOps[i].fn = "register"
    /\ currentAuth' = [username |-> authOps[i].username, encryptionKey |-> authOps[i].key]
    /\ ui' = renderMainJournalAppThrows(ui)
    /\ authOps' = [authOps EXCEPT ![i] = IdleOp]
    /\ hist' = [hist EXCEPT !.lastEvent = "register_failed"]
    /\ UNCHANGED <<profiles, journalVars, singleVars>>

\* decrypt settled and accepted, the session is installed, renderMainJournalApp
\* throws: the catch shows 'An unexpected error occurred during login' and
\* loginUser returns false
LoginDecryptedRenderThrows(i) ==
    /\ authOps[i].pc = "decrypt"
    /\ authOps[i].fn = "login"
    /\ loginVerdict(authOps[i]) \in {"success", "version_warned"}
    /\ currentAuth' = [username |-> authOps[i].username, encryptionKey |-> authOps[i].key]
    /\ ui' = renderMainJournalAppThrows(ui)
    /\ authOps' = [authOps EXCEPT ![i] = IdleOp]
    /\ hist' = [hist EXCEPT !.lastEvent = "login_failed"]
    /\ UNCHANGED <<profiles, journalVars, singleVars>>

\* registration and login, one call at a time, with every way they can fail
NextFailure ==
    \/ \E u \in Usernames, p \in Passwords : RegisterSubmit(1, u, p)
    \/ RegisterGotProfile(1)
    \/ RegisterDerived(1)
    \/ RegisterEncrypted(1)
    \/ RegisterEncryptedStorageError(1)
    \/ RegisterSaved(1)
    \/ RegisterSavedRenderThrows(1)
    \/ \E u \in Usernames, p \in Passwords : LoginSubmit(1, u, p)
    \/ LoginGotProfile(1)
    \/ LoginDerived(1)
    \/ LoginDecrypted(1)
    \/ LoginDecryptedRenderThrows(1)
    \/ ShowLoginForm
    \/ ShowRegisterForm
    \/ LogoutClick

SpecFailure == Init /\ [][NextFailure]_vars

\* ------------------------------------------- loginUser on a damaged store
\* the profile stores the login form can find: none, alice's profile as
\* registerUser stored it, and a record under alice's key whose sealed identity
\* was written for bobby with the same master password
DamagedStores ==
    {[u \in {} |-> NoProfile],
     [u \in {"alice"} |-> storedProfile("alice", "CorrectHorse1", CURRENT_DATA_VERSION)],
     [u \in {"alice"} |->
         [storedProfile("bobby", "CorrectHorse1", CURRENT_DATA_VERSION)
             EXCEPT !.username = "alice"]]}

InitDamaged ==
    /\ profiles \in DamagedStores
    /\ currentAuth = [username |-> NullUser, encryptionKey |-> NullKey]
    /\ ui = [timeLeft |-> SESSION_DURATION_SECONDS, warningShown |-> FALSE,
             popupHidden |-> TRUE, sessionTimerInterval |-> FALSE,
             sessionTimeoutId |-> NoTimeout, listeners |-> FALSE,
             screen |-> "login",
             journalList |-> << >>]
    /\ authOps = [i \in Slots |-> IdleOp]
    /\ entries = [id \in {} |-> NoEntry]
    /\ journalOp = IdleJournalOp
    /\ allJournalEntries = << >>
    /\ clock = 0
    /\ hist = FreshHist
    /\ mainOp = IdleMainOp
    /\ exported = NoBundle
    /\ sessionStorage = NoItems
    /\ cryptoCall = NoCryptoCall

\* login, logout and registration, one call at a time
NextDamaged ==
    \/ \E u \in Usernames, p \in Passwords : RegisterSubmit(1, u, p)
    \/ RegisterGotProfile(1)
    \/ RegisterDerived(1)
    \/ RegisterEncrypted(1)
    \/ RegisterSaved(1)
    \/ \E u \in Usernames, p \in Passwords : LoginSubmit(1, u, p)
    \/ LoginGotProfile(1)
    \/ LoginDerived(1)
    \/ LoginDecrypted(1)
    \/ ShowLoginForm
    \/ ShowRegisterForm
    \/ LogoutClick

SpecDamaged == InitDamaged /\ [][NextDamaged]_vars

\* ------------------------------------------ the list of entries on the page
MaxShown == 3
MaxStamp == 4

\* db.getEntries(): the stored entries in key order
getEntries(store) == getAllJournalEntries(store)

\* renderJournalEntry: the element of the entry is prepended to the list
renderJournalEntry(journalList, entry) == <<entry>> \o journalList

\* entries.forEach(entry => ui.renderJournalEntry(entry))
RECURSIVE forEachRenderJournalEntry(_, _)
forEachRenderJournalEntry(journalList, seq) ==
    IF seq = << >> THEN journalList
    ELSE forEachRenderJournalEntry(renderJournalEntry(journalList, Head(seq)), Tail(seq))

\* the entry stores a session can hold: at most MaxShown entries, keyed 1, 2, ...
\* with any timestamps up to MaxStamp
ShownStores ==
    UNION {{[id \in 1..n |-> [NoEntry EXCEPT !.id = id, !.timestamp = stamp[id]]] :
               stamp \in [1..n -> 1..MaxStamp]} : n \in 0..MaxShown}

\* the journal page of a running session, its list not yet filled
InitList ==
    /\ profiles = [u \in {} |-> NoProfile]
    /\ currentAuth = [username |-> NullUser, encryptionKey |-> NullKey]
    /\ ui = [timeLeft |-> SESSION_DURATION_SECONDS, warningShown |-> FALSE,
             popupHidden |-> TRUE, sessionTimerInterval |-> FALSE,
             sessionTimeoutId |-> NoTimeout, listeners |-> FALSE,
             screen |-> "session_main",
             journalList |-> << >>]
    /\ authOps = [i \in Slots |-> IdleOp]
    /\ entries \in ShownStores
    /\ journalOp = IdleJournalOp
    /\ allJournalEntries = << >>
    /\ clock = 0
    /\ hist = FreshHist
    /\ mainOp = IdleMainOp
    /\ exported = NoBundle
    /\ sessionStorage = NoItems
    /\ cryptoCall = NoCryptoCall

\* loadJournalEntries: db.getEntries is issued
ListLoadSubmit ==
    /\ ui.screen = "session_main"
    /\ journalOp.pc = "idle"
    /\ journalOp' = [IdleJournalOp EXCEPT !.pc = "list_get"]
    /\ hist' = [hist EXCEPT !.lastEvent = "step"]
    /\ UNCHANGED <<profiles, currentAuth, ui, authOps, entries, allJournalEntries, clock, singleVars>>

\* getEntries resolved: the list is emptied, the entries are sorted by
\* descending timestamp and rendered one after the other
ListGotEntries ==
    /\ journalOp.pc = "list_get"
    /\ ui' = [ui EXCEPT !.journalList =
                 forEachRenderJournalEntry(<< >>, sortNewestFirst(getEntries(entries)))]
    /\ journalOp' = IdleJournalOp
    /\ hist' = [hist EXCEPT !.lastEvent = "list"]
    /\ UNCHANGED <<profiles, currentAuth, authOps, entries, allJournalEntries, clock, singleVars>>

NextList ==
    \/ ListLoadSubmit
    \/ ListGotEntries

SpecList == InitList /\ [][NextList]_vars

\* ------------------------------------------------------------ properties
\* a session is in place: the status getAuthStatus resolves to
LoggedIn == getAuthStatus(currentAuth, profiles).value.isLoggedIn

\* the key an envelope was sealed under
sealingKey(envelope) == envelope.ciphertext[3]

\* the key and the password of the registration that wrote the stored profile
RegisteredKey(u) == sealingKey(profiles[u].encryptedIdentity)
RegisteredPassword(u) == RegisteredKey(u)[1]

\* C1: once the interval has counted the whole session duration down with no
\* activity and has run its expiry branch, the session is logged out: the key
\* slot is empty, getCurrentEncryptionKey no longer returns the key, and the
\* forced logout has been carried out.
C1_ExpiryLogsOut ==
    (hist.expiryRan /\ hist.lastEvent = "expire")
        => /\ ~LoggedIn
           /\ getCurrentEncryptionKey(currentAuth).value = NullKey
           /\ hist.forcedLogout

\* C2: with one call at a time, a login is accepted exactly when its password is
\* the one the stored profile was registered with; a session in place always
\* holds the key derived at registration, and an accepted login leaves a session.
C2_LoginChecksSecret ==
    /\ LoggedIn => /\ currentAuth.username \in DOMAIN profiles
                   /\ currentAuth.encryptionKey = RegisteredKey(currentAuth.username)
    /\ hist.lastEvent = "login" => LoggedIn
    /\ \A i \in Slots :
          (authOps[i].fn = "login" /\ authOps[i].pc = "decrypt")
             => loginVerdict(authOps[i]) =
                   IF authOps[i].password = RegisteredPassword(authOps[i].username)
                   THEN "success" ELSE "invalid_credentials"

C2_Witness ==
    /\ hist.lastEvent = "login"
    /\ LoggedIn
    /\ currentAuth.encryptionKey = RegisteredKey(currentAuth.username)

\* C3: a login or registration that a logout overtook while it was suspended in
\* key derivation does not install its key: the session stays logged out.
C3_LogoutDiscardsDerivedKey ==
    (hist.staleInstall /\ hist.lastEvent \in {"login", "register"}) => ~LoggedIn

\* C4: in every idle period the warning is emitted exactly once before expiry:
\* none and no popup while more than 60 seconds remain, one from the tick that
\* brings the remaining time to 60 on, the popup on screen while the interval
\* runs, and never a second one.
C4_WarningExactlyOnce ==
    /\ ui.timeLeft > WARNING_THRESHOLD_SECONDS => (hist.warnings = 0 /\ ui.popupHidden)
    /\ ui.timeLeft <= WARNING_THRESHOLD_SECONDS => hist.warnings = 1
    /\ (ui.sessionTimerInterval /\ ui.timeLeft <= WARNING_THRESHOLD_SECONDS)
          => (~ui.popupHidden /\ ui.warningShown)

C4_Witness ==
    /\ hist.idleStart = "session"
    /\ hist.expiryRan
    /\ ui.timeLeft = 0
    /\ hist.warnings = 1

\* C5: an activity event during a session sets the remaining time to the full
\* session duration, whatever it was, and leaves the session and its key as
\* they are.
C5_ActivityResetsTime ==
    [][(Activity /\ LoggedIn)
          => /\ ui'.timeLeft = SESSION_DURATION_SECONDS
             /\ currentAuth' = currentAuth]_vars

C5_Witness ==
    /\ hist.lastEvent = "activity"
    /\ hist.idleStart = "warning_activity"
    /\ LoggedIn
    /\ ui.timeLeft = SESSION_DURATION_SECONDS

\* C6: activity during the warning period brings the session back to active:
\* the popup is hidden, the remaining time is the full duration and the warning
\* flag is cleared; the idle period that follows emits a warning of its own.
C6_ActivityEndsWarning ==
    /\ hist.lastEvent \in {"activity", "dismiss"}
          => /\ ui.popupHidden
             /\ ui.timeLeft = SESSION_DURATION_SECONDS
             /\ ~ui.warningShown
             /\ hist.warnings = 0
    /\ (hist.idleStart = "warning_activity" /\ ui.sessionTimerInterval
           /\ ui.timeLeft <= WARNING_THRESHOLD_SECONDS)
          => (~ui.popupHidden /\ hist.warnings = 1)

C6_Witness ==
    /\ hist.idleStart = "warning_activity"
    /\ ui.sessionTimerInterval
    /\ ui.timeLeft < WARNING_THRESHOLD_SECONDS
    /\ ~ui.popupHidden
    /\ hist.warnings = 1

\* C7: right after a click on the logout button the key slot and the username
\* are empty, getCurrentEncryptionKey returns no key, and the warning popup is
\* hidden, also when the click came during the warning period.
C7_LogoutClearsSession ==
    hist.lastEvent = "logout"
        => /\ currentAuth.encryptionKey = NullKey
           /\ currentAuth.username = NullUser
           /\ getCurrentEncryptionKey(currentAuth).value = NullKey
           /\ ui.popupHidden
           /\ ~ui.warningShown

C7_Witness ==
    /\ hist.lastEvent = "logout"
    /\ hist.warnings = 1
    /\ ui.timeLeft > 0
    /\ ui.timeLeft <= WARNING_THRESHOLD_SECONDS

C10_OperationKeepsKey ==
    /\ journalOp.pc \in {"save_title", "save_content", "save_stored"}
          => /\ journalOp.key # NullKey
             /\ sealingKey(journalOp.encryptedTitle) = journalOp.key
    /\ journalOp.pc \in {"save_content", "save_stored"}
          => sealingKey(journalOp.encryptedContent) = journalOp.key
    /\ journalOp.pc \in {"load_entries", "load_decrypt"} => journalOp.key # NullKey
    /\ \A id \in DOMAIN entries :
          /\ sealingKey(entries[id].title) # NullKey
          /\ sealingKey(entries[id].content) = sealingKey(entries[id].title)

C10_Witness ==
    /\ journalOp.logoutAt = "save_title"
    /\ journalOp.pc = "save_stored"
    /\ currentAuth.encryptionKey = NullKey
    /\ DOMAIN entries # {}

\* C11: a registerUser call that was handed an existing profile for its username
\* ends there: the call is over, the stored profile (salt and sealed identity)
\* is what it was, and the session is what it was.
C11_DuplicateRegistrationRejected ==
    [][\A i \in Slots :
          (authOps[i].fn = "register" /\ authOps[i].found /\ authOps'[i] # authOps[i])
             => /\ authOps'[i] = IdleOp
                /\ profiles' = profiles
                /\ currentAuth' = currentAuth]_vars

C11_Witness ==
    /\ hist.lastEvent = "register_rejected"
    /\ DOMAIN profiles # {}
    /\ ~LoggedIn

\* C12: the kdfSalt of a stored profile never changes, whatever registerUser and
\* loginUser calls run and however they overlap.
C12_SaltNeverChanges ==
    [][\A u \in DOMAIN profiles :
          /\ u \in DOMAIN profiles'
          /\ profiles'[u].kdfSalt = profiles[u].kdfSalt]_vars

\* the step in which a registerUser call of either variant returns successfully
RegisterUserReturns ==
    \/ /\ authOps[1].fn = "register" /\ authOps[1].pc = "save"
       /\ authOps'[1] = IdleOp
    \/ /\ mainOp.fn = "register" /\ mainOp.pc = "save" /\ mainOp.ok
       /\ mainOp' = IdleMainOp

DerivedKeys ==
    {deriveKeyFor(p, stringToUint8Array(u), "encryption") :
        p \in Passwords, u \in Usernames}

\* C14: the derived key is never persisted: no item of sessionStorage is the
\* encoding of a derived key.
C14_KeyNeverPersisted ==
    \A name \in DOMAIN sessionStorage :
        \A key \in DerivedKeys : sessionStorage[name] # uint8ArrayToBase64(key)

\* a stored envelope that opens under key, and the plaintext sealed in it
Opens(envelope, key) ==
    /\ envelope.ciphertext[1] = "ct"
    /\ sealingKey(envelope) = key
    /\ envelope.ciphertext[4] = envelope.iv
Plaintext(envelope) == envelope.ciphertext[2]

\* the step in which loadAllJournalEntries fills the cache
LoadReturns ==
    /\ journalOp.pc = "load_decrypt"
    /\ journalOp' = IdleJournalOp
    /\ mainOp' = mainOp

\* C15: a batch load over n stored records returns n results: every record that
\* opens under the key is shown with its original title and content, every
\* record that does not is reported under its own id as a failure, and no record
\* is dropped.
C15_BatchLoadReportsEachFailure ==
    [][LoadReturns =>
          LET loaded == journalOp.encryptedEntries
              key == journalOp.key
          IN  /\ Len(allJournalEntries') = Len(loaded)
              /\ \A k \in 1..Len(loaded) :
                    \E j \in 1..Len(allJournalEntries') :
                       LET shown == allJournalEntries'[j]
                       IN  /\ shown.id = loaded[k].id
                           /\ IF Opens(loaded[k].title, key) /\ Opens(loaded[k].content, key)
                              THEN /\ shown.title = Plaintext(loaded[k].title)
                                   /\ shown.content = Plaintext(loaded[k].content)
                              ELSE /\ shown.title = "[Decryption Failed]"
                                   /\ shown.content =
                                         "[Content not available due to decryption error]"]_vars

\* a load has returned two results, one opened and one reported as a failure
C15_Witness ==
    /\ journalOp.pc = "idle"
    /\ Len(allJournalEntries) = 2
    /\ \E j \in 1..2 : allJournalEntries[j].title = "[Decryption Failed]"
    /\ \E j \in 1..2 : allJournalEntries[j].title \in Titles

\* C16: once logout has completed (no key, the cache emptied), the cache of
\* decrypted entries stays empty in every later state until the next login,
\* also when a loadAllJournalEntries call was in flight at the logout.
C16_CacheEmptyAfterLogout ==
    [][(/\ currentAuth.encryptionKey = NullKey
        /\ allJournalEntries = << >>
        /\ currentAuth'.encryptionKey = NullKey)
          => allJournalEntries' = << >>]_vars

\* the steps in which handleExportData reads the entry store and writes the
\* file, and the step in which a successful handleImportData has added the last
\* entry
ExportReads == mainOp.pc = "export_profile" /\ mainOp'.pc = "export_entries"
ExportReturns == mainOp.pc = "export_entries" /\ mainOp' = IdleMainOp
ImportReturns ==
    /\ mainOp.pc = "import_entries" /\ mainOp.todo = << >>
    /\ mainOp' = IdleMainOp

\* C17: the exported bundle holds the stored profile exactly as persisted, with
\* its kdfSalt, and every stored entry; after that bundle is imported with the
\* same master password, login with it succeeds and every stored entry opens
\* under the derived key.
C17_ExportImportRoundTrip ==
    [][/\ ExportReads =>
             /\ mainOp'.bundle.userProfile = profiles[FIXED_USERNAME]
             /\ {mainOp'.bundle.journalEntries[k].id :
                    k \in 1..Len(mainOp'.bundle.journalEntries)} = DOMAIN entries
       /\ ExportReturns =>
             /\ exported'.userProfile = mainOp.bundle.userProfile
             /\ exported'.userProfile.kdfSalt = profiles[FIXED_USERNAME].kdfSalt
             /\ Len(exported'.journalEntries) = Len(mainOp.bundle.journalEntries)
       /\ ImportReturns =>
             /\ FIXED_USERNAME \in DOMAIN profiles'
             /\ singleLoginAccepts([mainOp EXCEPT !.profile = profiles'[FIXED_USERNAME]])
             /\ \A id \in DOMAIN entries' :
                   /\ Opens(entries'[id].title, mainOp.key)
                   /\ Opens(entries'[id].content, mainOp.key)]_vars

\* C18: when changePassword returns successfully, every entry in the store opens
\* under the master key derived from the new password, entries saved by the
\* running session during the loop included.
C18_AllEntriesUnderNewKey ==
    [][(/\ mainOp.pc = "change_entries" /\ mainOp.todo = << >>
        /\ mainOp' = IdleMainOp
        /\ sessionMasterKey(sessionStorage') = mainOp.newKey)
          => \A id \in DOMAIN entries' :
                decryptData(base64ToUint8Array(entries'[id].content), mainOp.newKey,
                            base64ToUint8Array(entries'[id].iv)).ok]_vars

\* C19: a login against a stored record whose data version is not the current
\* one fails closed: the step that settles it establishes no session.
C19_UnknownVersionFailsClosed ==
    [][(/\ authOps[1].fn = "login" /\ authOps[1].pc = "decrypt"
        /\ authOps'[1] = IdleOp
        /\ authOps[1].username \in DOMAIN profiles
        /\ profiles[authOps[1].username].version # CURRENT_DATA_VERSION)
          => /\ currentAuth' = currentAuth
             /\ currentAuth'.encryptionKey = NullKey]_vars

\* C20: at application start the login form is shown if and only if at least
\* one profile is stored, and the registration form otherwise.
C20_EntryPointByProfile ==
    [][(ui.screen = "loading" /\ ui'.screen # "loading")
          => /\ ui'.screen = "login" <=> DOMAIN profiles # {}
             /\ ui'.screen = "register" <=> DOMAIN profiles = {}]_vars

\* a step of the running deleteAccount call
DeleteStep == mainOp.fn \in DeleteBodies /\ mainOp' # mainOp

\* the typed password opens the check envelope of the profile the call read
DeletePasswordVerified ==
    /\ mainOp.ok
    /\ decrypt(mainOp.profile.encryptedIdentity.ciphertext,
               mainOp.profile.encryptedIdentity.iv,
               mainOp.profile.encryptedIdentity.authTag,
               deriveKeyFromPassword(mainOp.password, mainOp.profile.kdfSalt)).ok

ImportWrites ==
    /\ mainOp.pc = "import_entries"
    /\ mainOp.todo # << >>
    /\ entries' # entries

\* C22: import verifies the encrypted data of the bundle: every entry the import
\* loop writes to the entry store authenticates under the key of the imported
\* identity, title and content both.
C22_ImportWritesOnlyAuthenticEntries ==
    [][ImportWrites =>
          /\ decryptField(Head(mainOp.todo).title, mainOp.key).ok
          /\ decryptField(Head(mainOp.todo).content, mainOp.key).ok]_vars

\* a string without a surrogate code unit that has no partner
RECURSIVE wellFormed(_)
wellFormed(str) ==
    IF str = << >> THEN TRUE
    ELSE IF isHigh(Head(str))
    THEN Len(str) >= 2 /\ isLow(str[2]) /\ wellFormed(Tail(Tail(str)))
    ELSE ~isLow(Head(str)) /\ wellFormed(Tail(str))

\* the envelope encrypt returned last and the text it was made from
LastSealed == cryptoCall.sealed[Len(cryptoCall.sealed)]

\* decrypt has just answered for the last envelope under the key that sealed it
DecryptAnswered == cryptoCall.sealed # << >> /\ hist.lastEvent = "decrypt"

\* the bytes decrypt puts together are the bytes the cipher gave to encrypt
SplitIsUndone(sealed) ==
    /\ encryptedDataWithTagOf(sealed.envelope.ciphertext, sealed.envelope.authTag)
          = subtleEncrypt(base64ToUint8(sealed.envelope.iv)[1], cryptoCall.key,
                          strToUint8(sealed.plain))
    /\ Len(base64ToUint8(sealed.envelope.authTag)) = TAG_LENGTH

C26_LoggedOutHasNoTimers ==
    ~LoggedIn => /\ ~ui.sessionTimerInterval
                 /\ ui.sessionTimeoutId = NoTimeout
                 /\ ~ui.listeners

\* registerUser or loginUser returns false: the running call ends without the
\* success message, or the validation of a submit rejects it
ReportsFailure ==
    \/ /\ authOps[1].pc # "idle"
       /\ authOps'[1].pc = "idle"
       /\ hist'.lastEvent \notin {"register", "login"}
    \/ /\ \E u \in Usernames, p \in Passwords : RegisterSubmit(1, u, p)
       /\ authOps' = authOps

\* C27: whenever registerUser or loginUser reports failure, the stored profiles
\* and the session are as they were before the call: the step that reports it
\* changes neither, and the name a failed registration asked for is in the store
\* only if it was there when the call looked it up.
C27_FailureChangesNothing ==
    [][ReportsFailure
          => /\ profiles' = profiles
             /\ currentAuth' = currentAuth
             /\ authOps[1].fn = "register"
                   => ((authOps[1].username \in DOMAIN profiles') <=> authOps[1].found)]_vars

\* handleImportData ends in its catch: the login with the imported profile was
\* refused, or addJournalEntry rejected an entry of the bundle
ImportFails ==
    /\ mainOp.fn = "import"
    /\ mainOp' = IdleMainOp
    /\ \/ mainOp.pc = "import_failed"
       \/ mainOp.pc = "import_entries" /\ mainOp.todo # << >>

\* C28: an import that fails, through a wrong master password for the bundle or
\* through a failure while writing its entries, leaves the profile store and the
\* entry store as the call found them.
C28_FailedImportKeepsStores ==
    [][ImportFails => /\ profiles' = mainOp.before.profiles
                      /\ entries' = mainOp.before.entries]_vars

\* changePassword throws: the old password was refused, an entry did not open
\* under the old master key, or a write was rejected (a reload that ends the
\* call is not a failure of the call)
ChangePasswordFails ==
    /\ mainOp.fn = "change"
    /\ mainOp' = IdleMainOp
    /\ ~(mainOp.pc = "change_entries" /\ mainOp.todo = << >>)
    /\ hist'.lastEvent # "logout_session"

\* the password p passes the check of loginUser against the stored profile
VerifiesAgainst(p, profile) ==
    compareHashes(deriveKeyFor(p, stringToUint8Array(profile.username), "hash"),
                  base64ToUint8Array(profile.hashedPassword))

\* the stored entry opens under the master key of the password p
OpensWith(p, username, entry) ==
    decryptData(base64ToUint8Array(entry.content),
                deriveKeyFor(p, stringToUint8Array(username), "encryption"),
                base64ToUint8Array(entry.iv)).ok

\* C29: when changePassword fails, the store is as usable as the call found it:
\* a password that passed the check of the stored profile still passes it, and
\* every entry that opened under the key of a password still opens under it, so
\* the new verifier is never stored next to entries of the old key and the
\* entries are never a mix of both keys.
C29_FailedChangeKeepsOldPassword ==
    [][(ChangePasswordFails /\ mainOp.profile # NoProfile)
          => \A p \in Passwords :
                /\ VerifiesAgainst(p, mainOp.profile)
                      => /\ mainOp.username \in DOMAIN profiles'
                         /\ VerifiesAgainst(p, profiles'[mainOp.username])
                /\ \A id \in DOMAIN mainOp.before.entries :
                      OpensWith(p, mainOp.username, mainOp.before.entries[id])
                         => /\ id \in DOMAIN entries'
                            /\ OpensWith(p, mainOp.username, entries'[id])]_vars

\* C30: in every reachable state the remaining time is between 0 and the
\* session duration, and the warning popup is visible only while somebody is
\* logged in and the remaining time is above 0 and at most the warning threshold.
C30_TimeLeftRangeAndPopupWindow ==
    /\ 0 <= ui.timeLeft
    /\ ui.timeLeft <= SESSION_DURATION_SECONDS
    /\ ~ui.popupHidden
          => /\ LoggedIn
             /\ 0 < ui.timeLeft
             /\ ui.timeLeft <= WARNING_THRESHOLD_SECONDS

\* the check payload of the running login as it opens under the derived key
OpenedIdentity ==
    decrypt(authOps[1].identity.ciphertext, authOps[1].identity.iv,
            authOps[1].identity.authTag, authOps[1].key)

\* the step in which loginUser settles after decrypt
LoginSettles ==
    /\ authOps[1].fn = "login" /\ authOps[1].pc = "decrypt"
    /\ authOps'[1] = IdleOp

\* C31: loginUser succeeds only if the opened check payload names the username
\* that was supplied: when the envelope opens under the derived key and names
\* another username, the login ends as a corrupt profile and no session is
\* established.
C31_ForeignPayloadIsCorruptProfile ==
    [][LoginSettles =>
          /\ hist'.lastEvent = "login"
                => OpenedIdentity.ok /\ OpenedIdentity.data.username = authOps[1].username
          /\ (OpenedIdentity.ok /\ OpenedIdentity.data.username # authOps[1].username)
                => /\ hist'.lastEvent = "corrupt_profile"
                   /\ currentAuth' = currentAuth
                   /\ currentAuth'.encryptionKey = NullKey
                   /\ ui' = ui]_vars

\* a login with the right master password has ended as a corrupt profile and
\* nobody is logged in
C31_Witness ==
    /\ hist.lastEvent = "corrupt_profile"
    /\ authOps[1] = IdleOp
    /\ ~LoggedIn
    /\ ui.screen # "main"
    /\ "alice" \in DOMAIN profiles

\* C32: deleteAccount for a username leaves the profile of every other username
\* as it was: no step of the call removes or changes a record stored under
\* another key.
C32_DeleteKeepsOtherProfiles ==
    [][DeleteStep =>
          \A u \in DOMAIN profiles \ {mainOp.username} :
             /\ u \in DOMAIN profiles'
             /\ profiles'[u] = profiles[u]]_vars

\* C33: after loadJournalEntries has rendered the entries, the list on the page
\* is most recent first: every stored entry is shown and the timestamps do not
\* increase from the top of the list to its bottom.
C33_ListNewestFirst ==
    hist.lastEvent = "list"
       => /\ Len(ui.journalList) = Cardinality(DOMAIN entries)
          /\ \A k \in 1..(Len(ui.journalList) - 1) :
                ui.journalList[k].timestamp >= ui.journalList[k + 1].timestamp

====
